---- MODULE Spec2Model ----
(***************************************************************************)
(* Workspace / operator-dispatch core of caffe2:                           *)
(*   caffe2/core/workspace.h, caffe2/core/workspace.cc,                    *)
(*   caffe2/core/operator.cc, caffe2/core/net_test.cc.                     *)
(* Workspaces live in an arena indexed 1..MaxWs; blobs and nets are        *)
(* objects with allocation identities, so that "the same object" is a      *)
(* statement about identities and not about names.                         *)
(***************************************************************************)
EXTENDS Integers, Sequences, FiniteSets, TLC

\* ------------------------------------------------------------------ bounds
MaxWs == 2       \* workspaces in the arena
MaxBlobs == 3    \* blob objects ever allocated
MaxNets == 2     \* net objects ever registered by Workspace::CreateNet
MaxVal == 1      \* payload values a caller writes into a blob (0 is empty)
MaxFwd == 1      \* forwarded entries per workspace
MaxSeqLen == 5   \* timesteps of one run of the recurrent operator

\* ------------------------------------------------------- program constants
NoBlob == 0      \* nullptr as a Blob*
NoWs == 0        \* nullptr as a Workspace*
NoNet == 0       \* nullptr as a NetBase*
NullEntry == -1  \* a net_map_ entry holding an empty unique_ptr
Indeterminate == -2  \* last_failed_op_net_position before its first write
FLAGS_caffe2_operator_max_engine_name_length == 10

WS == 1..MaxWs
Names == {"x", "y"}
NetNames == {"n", "m"}
NoFwd == [ws |-> NoWs, name |-> ""]

VARIABLES
    nWs,          \* number of constructed workspaces
    shared_,      \* Workspace::shared_ of each workspace
    blob_map_,    \* Workspace::blob_map_: name -> blob object (NoBlob: absent)
    forwarded_blobs_, \* Workspace::forwarded_blobs_: name -> (source ws, name)
    blobVal,      \* payload of each blob object
    nextBlob,     \* next blob identity to allocate
    net_map_,     \* Workspace::net_map_: name -> net object, NullEntry or NoNet
    nets,         \* the net objects
    nextNet,      \* next net identity to allocate
    last_failed_op_net_position,
    registry,     \* gDeviceTypeRegistry(): device -> key -> constructor
    g_per_op_engine_pref,
    g_global_engine_pref,
    FLAGS_caffe2_disable_implicit_engine_preference,
    pc,           \* position inside Workspace::CreateNet
    pending,      \* the call in progress
    ret,          \* outcome of the last completed call
    rnnOp,        \* the RecurrentNetworkOp: its arguments and rnnExecutor_
    stepWorkspaces, \* ScratchWorkspaces::stepWorkspaces (NoWs: null pointer)
    sharedBlobsWs,  \* ScratchWorkspaces::sharedBlobsWs is set
    stepWs,       \* the step workspaces: timestep blob, step net, views
    nextStepWs,   \* next step workspace identity to allocate
    seqLen,       \* Input(0).dim32(0) of the run in progress
    primed,       \* the initial state rows of the run in progress
    state,        \* rows of the recurrent state tensor in sharedWs_
    dst,          \* the alias output: a view of the state tensor
    timestep,     \* loop variable t of DoRunWithType
    slot,         \* index into stepWorkspaces taken by the last timestep
    timestepWs,   \* the executor's workspace of each initialized timestep
    stepNetDef_   \* RecurrentNetworkOp::stepNetDef_

vars == <<nWs, shared_, blob_map_, forwarded_blobs_, blobVal, nextBlob,
          net_map_, nets, nextNet, last_failed_op_net_position, registry,
          g_per_op_engine_pref, g_global_engine_pref,
          FLAGS_caffe2_disable_implicit_engine_preference, pc, pending, ret,
          rnnOp, stepWorkspaces, sharedBlobsWs, stepWs, nextStepWs, seqLen,
          primed, state, dst, timestep, slot, timestepWs, stepNetDef_>>

wsVars == <<nWs, shared_, forwarded_blobs_>>
blobVars == <<blob_map_, blobVal, nextBlob>>
netVars == <<net_map_, nets, nextNet>>
rnnVars == <<rnnOp, stepWorkspaces, sharedBlobsWs, stepWs, nextStepWs, seqLen,
             primed, state, dst, timestep, slot, timestepWs, stepNetDef_>>
dispatchVars == <<registry, g_per_op_engine_pref, g_global_engine_pref,
                  FLAGS_caffe2_disable_implicit_engine_preference>>

\* ----------------------------------------------------- blob name resolution
RECURSIVE HasBlob(_, _, _)
RECURSIVE GetBlob(_, _, _)

\* HasBlob falling through to the shared parent when the source of a
\* forwarded entry holds no blob.
HasBlob_FallThrough(bm, w, name) ==
    IF bm[w][name] # NoBlob THEN TRUE
    ELSE IF /\ forwarded_blobs_[w][name].ws # NoWs
            /\ HasBlob(bm, forwarded_blobs_[w][name].ws,
                           forwarded_blobs_[w][name].name)
         THEN TRUE
    ELSE IF shared_[w] # NoWs THEN HasBlob(bm, shared_[w], name)
    ELSE FALSE

\* Workspace::HasBlob over a blob map bm (the map changes inside a call).
HasBlob(bm, w, name) ==
    IF bm[w][name] # NoBlob THEN TRUE
    ELSE IF forwarded_blobs_[w][name].ws # NoWs
         THEN HasBlob(bm, forwarded_blobs_[w][name].ws,
                          forwarded_blobs_[w][name].name)
    ELSE IF shared_[w] # NoWs THEN HasBlob(bm, shared_[w], name)
    ELSE FALSE

\* GetBlob asking the shared parent before the local map.
GetBlob_SharedFirst(bm, w, name) ==
    IF shared_[w] # NoWs /\ HasBlob(bm, shared_[w], name)
    THEN GetBlob(bm, shared_[w], name)
    ELSE IF bm[w][name] # NoBlob THEN bm[w][name]
    ELSE IF forwarded_blobs_[w][name].ws # NoWs
         THEN GetBlob(bm, forwarded_blobs_[w][name].ws,
                          forwarded_blobs_[w][name].name)
    ELSE NoBlob

\* Workspace::GetBlob (const and non-const overloads) over a blob map bm.
GetBlob(bm, w, name) ==
    IF bm[w][name] # NoBlob THEN bm[w][name]
    ELSE IF forwarded_blobs_[w][name].ws # NoWs
         THEN GetBlob(bm, forwarded_blobs_[w][name].ws,
                          forwarded_blobs_[w][name].name)
    ELSE IF shared_[w] # NoWs /\ HasBlob(bm, shared_[w], name)
         THEN GetBlob(bm, shared_[w], name)
    ELSE NoBlob

\* CreateBlob putting the new blob into the shared parent's map.
CreateBlobMap_InShared(bm, nb, w, name) ==
    IF HasBlob(bm, w, name) THEN bm
    ELSE IF forwarded_blobs_[w][name].ws # NoWs THEN bm
    ELSE [bm EXCEPT ![IF shared_[w] # NoWs THEN shared_[w] ELSE w][name] = nb]

\* CreateBlob looking at the local map only before it allocates.
CreateBlobMap_LocalOnly(bm, nb, w, name) ==
    IF bm[w][name] # NoBlob THEN bm
    ELSE IF forwarded_blobs_[w][name].ws # NoWs THEN bm
    ELSE [bm EXCEPT ![w][name] = nb]

\* CreateBlob allocating a blob also for a name the local map holds.
CreateBlobMap_Fresh(bm, nb, w, name) ==
    IF forwarded_blobs_[w][name].ws # NoWs THEN bm
    ELSE [bm EXCEPT ![w][name] = nb]

\* Workspace::CreateBlob, its first part: the blob map after the branch on
\* HasBlob and on forwarded_blobs_; a fresh blob takes the identity nb.
CreateBlobMap(bm, nb, w, name) ==
    IF HasBlob(bm, w, name) THEN bm
    ELSE IF forwarded_blobs_[w][name].ws # NoWs THEN bm
    ELSE [bm EXCEPT ![w][name] = nb]

\* Workspace::CreateBlob, its last line: return GetBlob(name).
CreateBlobReturn(bm, bm2, nb, w, name) ==
    [bm |-> bm2, nb |-> IF bm2 = bm THEN nb ELSE nb + 1,
     blob |-> GetBlob(bm2, w, name)]

\* Workspace::CreateBlob: the blob map, the allocation counter and the
\* returned pointer. A fresh blob is empty (blobVal of an unallocated
\* identity is 0).
CreateBlob(bm, nb, w, name) ==
    CreateBlobReturn(bm, CreateBlobMap(bm, nb, w, name), nb, w, name)

\* ------------------------------------------------------------ operator defs
Comma == ","
DEFAULT == <<"D", "E", "F", "A", "U", "L", "T">>
CUDNN == <<"C", "U", "D", "N", "N">>
INT_MAX == 2147483647

\* An OperatorDef as the core reads it: type, input and output names, the
\* device type of device_option, the engine string and the "fail" argument
\* of NetTestDummyOp.
OpDef(type, input, output, device, engine, fail) ==
    [type |-> type, input |-> input, output |-> output, device |-> device,
     engine |-> engine, fail |-> fail]

\* split(separator, string) of caffe2/utils/string_utils.h: std::getline
\* pieces; an empty string gives no piece, a trailing separator adds none.
RECURSIVE split(_, _)
split(sep, s) ==
    IF s = <<>> THEN <<>>
    ELSE LET hits == {i \in 1..Len(s) : s[i] = sep}
         IN  IF hits = {} THEN <<s>>
             ELSE LET i == CHOOSE k \in hits : \A j \in hits : k <= j
                  IN  <<SubSeq(s, 1, i - 1)>> \o
                      split(sep, SubSeq(s, i + 1, Len(s)))

\* OpRegistryKey: op_type, or op_type + "_ENGINE_" + engine.
OpRegistryKey(op_type, engine) ==
    IF engine = <<>> \/ engine = DEFAULT THEN <<op_type>>
    ELSE <<op_type, "_ENGINE_">> \o engine

\* OPERATOR_SCHEMA entries of net_test.cc.
OpSchemaRegistry ==
    [t \in {"NetTestDummy", "NetTestDummy2"} |->
        IF t = "NetTestDummy"
        THEN [min_input |-> 0, max_input |-> INT_MAX,
              min_output |-> 0, max_output |-> INT_MAX,
              inplace |-> {<<0, 0>>, <<1, 1>>}]
        ELSE [min_input |-> 0, max_input |-> INT_MAX,
              min_output |-> 0, max_output |-> INT_MAX,
              inplace |-> {<<1, 0>>}]]

\* OpSchema::Verify: arity in range, and every (input, output) pair of the
\* def that names the same blob is in the allow-list (indices from 0).
SchemaVerify(schema, def) ==
    /\ Len(def.input) >= schema.min_input
    /\ Len(def.input) <= schema.max_input
    /\ Len(def.output) >= schema.min_output
    /\ Len(def.output) <= schema.max_output
    /\ \A i \in 1..Len(def.input) : \A o \in 1..Len(def.output) :
          def.input[i] = def.output[o] => <<i - 1, o - 1>> \in schema.inplace

\* OperatorBase::OperatorBase, the loop over the outputs: CreateBlob for
\* each, in order.
RECURSIVE CreateOutputs(_, _, _, _, _, _), CreateOutputsNext(_, _, _, _, _)
CreateOutputsNext(outs, i, w, acc, c) ==
    CreateOutputs(outs, i + 1, c.bm, c.nb, w, Append(acc, c.blob))
CreateOutputs(outs, i, bm, nb, w, acc) ==
    IF i > Len(outs) THEN [bm |-> bm, nb |-> nb, outputs |-> acc]
    ELSE CreateOutputsNext(outs, i, w, acc, CreateBlob(bm, nb, w, outs[i]))

Failed(status, bm, nb) ==
    [status |-> status, bm |-> bm, nb |-> nb, inputs |-> <<>>,
     outputs |-> <<>>]

\* OperatorBase::OperatorBase with the inputs looked up and the outputs
\* created: a missing input throws before any output is created; a null
\* CreateBlob result fails CHECK_NOTNULL.
OperatorBaseBind(inputs, o, bm, nb) ==
    IF \E i \in 1..Len(inputs) : inputs[i] = NoBlob
    THEN Failed("throw", bm, nb)
    ELSE IF \E i \in 1..Len(o.outputs) : o.outputs[i] = NoBlob
    THEN Failed("throw", o.bm, o.nb)
    ELSE [status |-> "op", bm |-> o.bm, nb |-> o.nb,
          inputs |-> inputs, outputs |-> o.outputs]

\* OperatorBase::OperatorBase: binds every input to an existing blob, then
\* creates and binds the outputs.
OperatorBase(def, bm, nb, w) ==
    OperatorBaseBind([i \in 1..Len(def.input) |-> GetBlob(bm, w, def.input[i])],
                     CreateOutputs(def.output, 1, bm, nb, w, <<>>), bm, nb)

\* What the creator registered under a key does: "absent" (no creator:
\* Registry::Create returns null), "ok", "unsupported" (the kernel's
\* constructor throws UnsupportedOperatorFeature after its OperatorBase part
\* ran) or "error" (it throws anything else).
Behaviours == {"absent", "ok", "unsupported", "error"}

Creator(device, key) ==
    IF device \in DOMAIN registry /\ key \in DOMAIN registry[device]
    THEN registry[device][key] ELSE "absent"

\* The catch of TryCreateOperator catching every exception.
RegistryCreate_CatchAll(beh, base, bm, nb) ==
    IF beh = "absent" THEN Failed("null", bm, nb)
    ELSE IF base.status = "throw" THEN Failed("null", base.bm, base.nb)
    ELSE IF beh \in {"unsupported", "error"}
    THEN Failed("null", base.bm, base.nb)
    ELSE base

\* registry->Create(key, ...) inside the try block of TryCreateOperator:
\* beh is what the creator does, base what its OperatorBase part did.
RegistryCreate(beh, base, bm, nb) ==
    IF beh = "absent" THEN Failed("null", bm, nb)
    ELSE IF base.status = "throw" THEN base
    ELSE IF beh = "unsupported" THEN Failed("null", base.bm, base.nb)
    ELSE IF beh = "error" THEN Failed("throw", base.bm, base.nb)
    ELSE base

\* TryCreateOperator: status "op", "null" or "throw".
TryCreateOperator(key, def, bm, nb, w) ==
    IF def.device \notin DOMAIN registry
    THEN Failed("throw", bm, nb)
    ELSE RegistryCreate(Creator(def.device, key),
                        OperatorBase(def, bm, nb, w), bm, nb)

\* The candidate list with the preferred engines ahead of the engines of
\* the operator def.
CandidateEngines_PrefsFirst(def) ==
    LET explicit == IF Len(def.engine) > 0 THEN split(Comma, def.engine)
                    ELSE <<>>
        perop == IF /\ ~FLAGS_caffe2_disable_implicit_engine_preference
                    /\ def.device \in DOMAIN g_per_op_engine_pref
                    /\ def.type \in DOMAIN g_per_op_engine_pref[def.device]
                 THEN g_per_op_engine_pref[def.device][def.type]
                 ELSE <<>>
        global == IF /\ ~FLAGS_caffe2_disable_implicit_engine_preference
                     /\ def.device \in DOMAIN g_global_engine_pref
                  THEN g_global_engine_pref[def.device]
                  ELSE <<>>
    IN  perop \o global \o explicit

\* The candidate engine list of _CreateOperator.
CandidateEngines(def) ==
    LET explicit == IF Len(def.engine) > 0 THEN split(Comma, def.engine)
                    ELSE <<>>
        perop == IF /\ ~FLAGS_caffe2_disable_implicit_engine_preference
                    /\ def.device \in DOMAIN g_per_op_engine_pref
                    /\ def.type \in DOMAIN g_per_op_engine_pref[def.device]
                 THEN g_per_op_engine_pref[def.device][def.type]
                 ELSE <<>>
        global == IF /\ ~FLAGS_caffe2_disable_implicit_engine_preference
                     /\ def.device \in DOMAIN g_global_engine_pref
                  THEN g_global_engine_pref[def.device]
                  ELSE <<>>
    IN  explicit \o perop \o global

\* annotate_engine with the truncation of _CreateOperator.
AnnotatedEngine(engine) ==
    IF Len(engine) <= FLAGS_caffe2_operator_max_engine_name_length
    THEN engine
    ELSE SubSeq(engine, 1, FLAGS_caffe2_operator_max_engine_name_length)

\* An instance (or the failure) as _CreateOperator leaves it. tried is the
\* sequence of registry keys handed to TryCreateOperator, in order.
OpResult(status, t, engine, tried, def) ==
    [status |-> status, bm |-> t.bm, nb |-> t.nb, inputs |-> t.inputs,
     outputs |-> t.outputs, engine |-> engine, tried |-> tried,
     fail |-> def.fail, type |-> def.type]

\* The default implementation without the enforce: a null instance goes
\* back to the caller.
TryDefault_ReturnsNull(def, tried, t) ==
    OpResult(t.status, t, <<>>, tried, def)

\* The last step of _CreateOperator: the default implementation, whose
\* failure is the CAFFE_ENFORCE(op, ...).
TryDefault(def, tried, t) ==
    OpResult(IF t.status = "op" THEN "op" ELSE "throw", t, <<>>, tried, def)

\* The loop of _CreateOperator over the candidate engines: the first that
\* gives an instance is returned, annotated with its engine.
RECURSIVE TryEngines(_, _, _, _, _, _, _), TryEnginesStep(_, _, _, _, _, _)
TryEnginesStep(engines, i, def, w, tried, t) ==
    IF t.status = "op"
    THEN OpResult("op", t, AnnotatedEngine(engines[i]), tried, def)
    ELSE IF t.status = "throw" THEN OpResult("throw", t, <<>>, tried, def)
    ELSE TryEngines(engines, i + 1, def, t.bm, t.nb, w, tried)
TryEngines(engines, i, def, bm, nb, w, tried) ==
    IF i > Len(engines)
    THEN TryDefault(def, Append(tried, <<def.type>>),
                    TryCreateOperator(<<def.type>>, def, bm, nb, w))
    ELSE TryEnginesStep(engines, i, def, w,
            Append(tried, OpRegistryKey(def.type, engines[i])),
            TryCreateOperator(OpRegistryKey(def.type, engines[i]),
                              def, bm, nb, w))

\* _CreateOperator without the schema check.
_CreateOperator_NoVerify(def, bm, nb, w) ==
    TryEngines(CandidateEngines(def), 1, def, bm, nb, w, <<>>)

\* _CreateOperator: schema check, then the engines.
_CreateOperator(def, bm, nb, w) ==
    IF /\ def.type \in DOMAIN OpSchemaRegistry
       /\ ~SchemaVerify(OpSchemaRegistry[def.type], def)
    THEN OpResult("throw", Failed("throw", bm, nb), <<>>, <<>>, def)
    ELSE TryEngines(CandidateEngines(def), 1, def, bm, nb, w, <<>>)

\* CreateOperator around _CreateOperator's outcome r: the instance with its
\* net position, or the exception with last_failed_op_net_position of the
\* workspace (lf) written when net_position is not 0.
CreateOperatorCatch_AlwaysRecord(r, w, net_position, lf) ==
    [op |-> r,
     net_position |-> IF r.status = "op" THEN net_position ELSE 0,
     lf |-> IF r.status = "throw"
            THEN [lf EXCEPT ![w] = net_position] ELSE lf]

CreateOperatorCatch(r, w, net_position, lf) ==
    [op |-> r,
     net_position |-> IF r.status = "op" THEN net_position ELSE 0,
     lf |-> IF r.status = "throw" /\ net_position # 0
            THEN [lf EXCEPT ![w] = net_position] ELSE lf]

CreateOperator(def, bm, nb, w, net_position, lf) ==
    CreateOperatorCatch(_CreateOperator(def, bm, nb, w), w, net_position, lf)

\* --------------------------------------------------------------------- nets
\* A NetDef as the core reads it.
NetDef(has_name, name, type, op, external_input, external_output) ==
    [has_name |-> has_name, name |-> name, type |-> type, op |-> op,
     external_input |-> external_input,
     external_output |-> external_output]

\* Net types with a registered creator; a NetDef without type is a SimpleNet.
NetTypes == {"", "simple"}

NoNetObj == [alive |-> FALSE, ops |-> <<>>, w |-> NoWs, name |-> ""]

\* The kernel instance a net (or RunOperatorOnce) keeps.
Instance(c) ==
    [type |-> c.op.type, fail |-> c.op.fail, inputs |-> c.op.inputs,
     outputs |-> c.op.outputs, engine |-> c.op.engine,
     net_position |-> c.net_position]

\* The operators of a net, built in NetDef order; the net position of a
\* node is its index in the NetDef, from 0.
RECURSIVE CreateNetOps(_, _, _, _, _, _, _), CreateNetOpsNext(_, _, _, _, _)
CreateNetOpsNext(ops, idx, w, acc, c) ==
    IF c.op.status = "throw"
    THEN [status |-> "throw", ops |-> <<>>, bm |-> c.op.bm,
          nb |-> c.op.nb, lf |-> c.lf]
    ELSE CreateNetOps(ops, idx + 1, c.op.bm, c.op.nb, w, c.lf,
                      Append(acc, Instance(c)))
CreateNetOps(ops, idx, bm, nb, w, lf, acc) ==
    IF idx >= Len(ops)
    THEN [status |-> "net", ops |-> acc, bm |-> bm, nb |-> nb, lf |-> lf]
    ELSE CreateNetOpsNext(ops, idx, w, acc,
                          CreateOperator(ops[idx + 1], bm, nb, w, idx, lf))

\* caffe2::CreateNet without the checks of the declared external inputs
\* and outputs.
NetCreate_NoDeclarations(def, bm, nb, w, lf) ==
    IF def.type \notin NetTypes
    THEN [status |-> "null", ops |-> <<>>, bm |-> bm, nb |-> nb, lf |-> lf]
    ELSE CreateNetOps(def.op, 0, bm, nb, w, lf, <<>>)

\* caffe2::CreateNet(net_def, ws): null for a net type without creator;
\* throws when a declared external input is no blob of the workspace, when
\* a declared external output is produced by no operator, or when an
\* operator cannot be created.
NetCreate(def, bm, nb, w, lf) ==
    IF def.type \notin NetTypes
    THEN [status |-> "null", ops |-> <<>>, bm |-> bm, nb |-> nb, lf |-> lf]
    ELSE IF \/ \E i \in 1..Len(def.external_input) :
                  ~HasBlob(bm, w, def.external_input[i])
            \/ \E i \in 1..Len(def.external_output) :
                  ~\E k \in 1..Len(def.op) : \E o \in 1..Len(def.op[k].output) :
                      def.op[k].output[o] = def.external_output[i]
    THEN [status |-> "throw", ops |-> <<>>, bm |-> bm, nb |-> nb, lf |-> lf]
    ELSE CreateNetOps(def.op, 0, bm, nb, w, lf, <<>>)

\* A Run that does not look at the "fail" argument.
OpRun_IgnoreFail(inst) == TRUE

\* NetTestDummyOp::Run.
OpRun(inst) == ~inst.fail

\* SimpleNet::Run: the instances in construction order, stopping at the
\* first that reports failure. executed counts the successful runs.
RECURSIVE NetRun(_, _, _)
NetRun(ops, i, executed) ==
    IF i > Len(ops) THEN [ok |-> TRUE, executed |-> executed]
    ELSE IF ~OpRun(ops[i]) THEN [ok |-> FALSE, executed |-> executed]
    ELSE NetRun(ops, i + 1, executed + 1)

\* ------------------------------------------------------- the calls' inputs
OpX == OpDef("NetTestDummy", <<>>, <<"x">>, "CPU", <<>>, FALSE)
OpXY == OpDef("NetTestDummy", <<"x">>, <<"y">>, "CPU", <<>>, FALSE)
OpXYFail == OpDef("NetTestDummy", <<"x">>, <<"y">>, "CPU", <<>>, TRUE)
OpNoImpl == OpDef("NoSuchOp", <<>>, <<"y">>, "CPU", <<>>, FALSE)
OpDefs == {OpX, OpXY, OpXYFail, OpNoImpl}

NetDefsNamed(n) ==
    {NetDef(TRUE, n, "", <<OpXY>>, <<>>, <<>>),
     NetDef(TRUE, n, "", <<OpX, OpXYFail>>, <<>>, <<>>),
     NetDef(TRUE, n, "simple", <<OpX, OpXY>>, <<"x">>, <<"y">>),
     NetDef(TRUE, n, "bogus", <<OpX>>, <<>>, <<>>)}
NetDefs ==
    NetDefsNamed("n")
        \cup {NetDef(TRUE, "m", "", <<OpX>>, <<>>, <<>>),
              NetDef(FALSE, "", "", <<OpX>>, <<>>, <<>>)}

\* The nets of CreateNetTestHelper handed to RunNetOnce besides NetDefs:
\* two chained operators without declarations, and a declared external
\* output that no operator produces.
OnceNetDefs ==
    NetDefs \cup {NetDef(TRUE, "n", "", <<OpX, OpXY>>, <<>>, <<>>),
                  NetDef(TRUE, "n", "", <<OpX, OpXY>>, <<"y">>, <<>>),
                  NetDef(TRUE, "n", "", <<OpX>>, <<>>, <<"y">>)}

\* The outcome of a completed call, as its caller sees it.
Ret(op, w, name, threw, ok, blob, net, aux) ==
    [op |-> op, w |-> w, name |-> name, threw |-> threw, ok |-> ok,
     blob |-> blob, net |-> net, aux |-> aux]
NoRet == Ret("", NoWs, "", FALSE, FALSE, NoBlob, NoNet, <<>>)
NoPending == [w |-> NoWs, def |-> NetDef(FALSE, "", "", <<>>, <<>>, <<>>),
              overwrite |-> FALSE, erased |-> FALSE, result |-> NoNet]

Live == 1..nWs

\* ------------------------------------------------------- workspace actions
\* Workspace::Workspace() and Workspace::Workspace(shared).
NewWorkspace(p) ==
    /\ pc = "idle"
    /\ nWs < MaxWs
    /\ nWs' = nWs + 1
    /\ shared_' = [shared_ EXCEPT ![nWs + 1] = p]
    /\ ret' = Ret("Workspace", nWs + 1, "", FALSE, TRUE, NoBlob, NoNet, <<>>)
    /\ UNCHANGED <<rnnVars, forwarded_blobs_, blobVars, netVars,
                   last_failed_op_net_position, dispatchVars, pc, pending>>

NumForwarded(w) == Cardinality({n \in Names : forwarded_blobs_[w][n] # NoFwd})

\* Installing a forwarded entry name -> (src, srcname); skipped when the
\* workspace already holds the name locally.
AddBlobMapping(w, name, src, srcname) ==
    /\ pc = "idle"
    /\ IF blob_map_[w][name] # NoBlob
       THEN UNCHANGED forwarded_blobs_
       ELSE forwarded_blobs_' =
              [forwarded_blobs_ EXCEPT ![w][name] = [ws |-> src, name |-> srcname]]
    /\ Cardinality({n \in Names : forwarded_blobs_'[w][n] # NoFwd}) <= MaxFwd
    /\ ret' = Ret("AddBlobMapping", w, name, FALSE,
                  blob_map_[w][name] = NoBlob, NoBlob, NoNet, <<>>)
    /\ UNCHANGED <<rnnVars, nWs, shared_, blobVars, netVars,
                   last_failed_op_net_position, dispatchVars, pc, pending>>

CreateBlobApply(w, name, c) ==
    /\ c.nb <= MaxBlobs + 1
    /\ blob_map_' = c.bm
    /\ nextBlob' = c.nb
    /\ ret' = Ret("CreateBlob", w, name, FALSE, c.nb # nextBlob,
                  c.blob, NoNet, <<>>)

\* A call of Workspace::CreateBlob; ret.ok tells that a blob was allocated.
CreateBlobCall(w, name) ==
    /\ pc = "idle"
    /\ CreateBlobApply(w, name, CreateBlob(blob_map_, nextBlob, w, name))
    /\ UNCHANGED <<rnnVars, wsVars, blobVal, netVars, last_failed_op_net_position,
                   dispatchVars, pc, pending>>

GetBlobCall(w, name) ==
    /\ pc = "idle"
    /\ ret' = Ret("GetBlob", w, name, FALSE,
                  GetBlob(blob_map_, w, name) # NoBlob,
                  GetBlob(blob_map_, w, name), NoNet, <<>>)
    /\ UNCHANGED <<rnnVars, wsVars, blobVars, netVars, last_failed_op_net_position,
                   dispatchVars, pc, pending>>

HasBlobCall(w, name) ==
    /\ pc = "idle"
    /\ ret' = Ret("HasBlob", w, name, FALSE, HasBlob(blob_map_, w, name),
                  NoBlob, NoNet, <<>>)
    /\ UNCHANGED <<rnnVars, wsVars, blobVars, netVars, last_failed_op_net_position,
                   dispatchVars, pc, pending>>

\* A caller's write through a Blob pointer (Blob::GetMutable): the payload
\* is replaced in place.
WriteBlob(b, v) ==
    /\ pc = "idle"
    /\ b < nextBlob
    /\ blobVal' = [blobVal EXCEPT ![b] = v]
    /\ ret' = Ret("WriteBlob", NoWs, "", FALSE, TRUE, b, NoNet, <<>>)
    /\ UNCHANGED <<rnnVars, wsVars, blob_map_, nextBlob, netVars,
                   last_failed_op_net_position, dispatchVars, pc, pending>>

\* ------------------------------------------------------------- net actions
\* net_map_.erase(name): the entry goes and its unique_ptr destroys the net.
Destroy(ns, id) == IF id > NoNet THEN [ns EXCEPT ![id] = NoNetObj] ELSE ns

\* CreateNet erasing the existing entry before it refuses to overwrite.
CreateNetEntry_EraseFirst(nm, w, def, overwrite) ==
    [threw |-> ~def.has_name \/ (nm[w][def.name] # NoNet /\ ~overwrite),
     erase |-> def.has_name /\ nm[w][def.name] # NoNet]

\* CreateNet leaving the existing entry to the assignment of the new net.
CreateNetEntry_NoErase(nm, w, def, overwrite) ==
    [threw |-> ~def.has_name \/ (nm[w][def.name] # NoNet /\ ~overwrite),
     erase |-> FALSE]

\* The head of Workspace::CreateNet: whether it throws (no name, or a net of
\* that name without overwrite) and whether it erases the existing entry.
CreateNetEntry(nm, w, def, overwrite) ==
    LET exists == def.has_name /\ nm[w][def.name] # NoNet
    IN  [threw |-> ~def.has_name \/ (exists /\ ~overwrite),
         erase |-> exists /\ overwrite]

\* The call stays inside the model's allocation bounds.
Fits(r) == r.nb <= MaxBlobs + 1 /\ (r.status = "net" => nextNet <= MaxNets)

\* Workspace::CreateNet up to the call of caffe2::CreateNet.
CreateNetBegin(w, def, overwrite) ==
    /\ pc = "idle"
    /\ Fits(NetCreate(def, blob_map_, nextBlob, w,
                       last_failed_op_net_position))
    /\ LET e == CreateNetEntry(net_map_, w, def, overwrite)
       IN  /\ IF e.erase
              THEN /\ net_map_' = [net_map_ EXCEPT ![w][def.name] = NoNet]
                   /\ nets' = Destroy(nets, net_map_[w][def.name])
              ELSE UNCHANGED <<net_map_, nets>>
           /\ IF e.threw
              THEN /\ ret' = Ret("CreateNet", w, def.name, TRUE, FALSE,
                                 NoBlob, NoNet, <<"refused">>)
                   /\ UNCHANGED <<pc, pending>>
              ELSE /\ ret' = NoRet
                   /\ pc' = "construct"
                   /\ pending' = [w |-> w, def |-> def,
                                  overwrite |-> overwrite,
                                  erased |-> e.erase, result |-> NoNet]
    /\ UNCHANGED <<rnnVars, wsVars, blobVars, nextNet, last_failed_op_net_position,
                   dispatchVars>>

\* The call of caffe2::CreateNet inside Workspace::CreateNet. The statement
\* net_map_[name] = unique_ptr(CreateNet(...)) leaves the order of
\* net_map_[name] and of the call unspecified before C++17: when the
\* subscript runs first (lhsFirst) and the call throws, an empty entry stays.
CreateNetConstructApply(lhsFirst, w, def, r) ==
    /\ blob_map_' = r.bm
    /\ nextBlob' = r.nb
    /\ last_failed_op_net_position' = r.lf
    /\ IF r.status = "throw"
       THEN /\ net_map_' = IF lhsFirst /\ net_map_[w][def.name] = NoNet
                           THEN [net_map_ EXCEPT ![w][def.name] = NullEntry]
                           ELSE net_map_
            /\ ret' = Ret("CreateNet", w, def.name, TRUE, FALSE,
                          NoBlob, NoNet, <<"construction">>)
            /\ pc' = "idle"
            /\ pending' = NoPending
            /\ UNCHANGED <<nets, nextNet>>
       ELSE IF r.status = "null"
       THEN /\ pc' = "install"
            /\ pending' = [pending EXCEPT !.result = NoNet]
            /\ UNCHANGED <<net_map_, nets, nextNet, ret>>
       ELSE /\ nets' = [nets EXCEPT ![nextNet] =
                          [alive |-> TRUE, ops |-> r.ops,
                           w |-> w, name |-> def.name]]
            /\ nextNet' = nextNet + 1
            /\ pc' = "install"
            /\ pending' = [pending EXCEPT !.result = nextNet]
            /\ UNCHANGED <<net_map_, ret>>

CreateNetConstruct(lhsFirst) ==
    /\ pc = "construct"
    /\ CreateNetConstructApply(lhsFirst, pending.w, pending.def,
          NetCreate(pending.def, blob_map_, nextBlob, pending.w,
                    last_failed_op_net_position))
    /\ UNCHANGED <<rnnVars, wsVars, blobVal, dispatchVars>>

\* The assignment into net_map_[name] (whatever the entry held is
\* destroyed) and the tail of Workspace::CreateNet.
CreateNetInstall ==
    /\ pc = "install"
    /\ LET w == pending.w
           name == pending.def.name
       IN  /\ nets' = Destroy(nets, net_map_[w][name])
           /\ net_map_' = [net_map_ EXCEPT ![w][name] = pending.result]
           /\ ret' = Ret("CreateNet", w, name, FALSE,
                         pending.result # NoNet, NoBlob, pending.result,
                         IF pending.result = NoNet THEN <<"null">>
                         ELSE IF pending.erased THEN <<"replaced">>
                         ELSE <<"created">>)
    /\ pc' = "idle"
    /\ pending' = NoPending
    /\ UNCHANGED <<rnnVars, wsVars, blobVars, nextNet, last_failed_op_net_position,
                   dispatchVars>>

\* Workspace::GetNet.
GetNet(nm, w, name) ==
    IF nm[w][name] = NoNet THEN NoNet
    ELSE IF nm[w][name] = NullEntry THEN NoNet
    ELSE nm[w][name]

GetNetCall(w, name) ==
    /\ pc = "idle"
    /\ ret' = Ret("GetNet", w, name, FALSE, GetNet(net_map_, w, name) # NoNet,
                  NoBlob, GetNet(net_map_, w, name), <<>>)
    /\ UNCHANGED <<rnnVars, wsVars, blobVars, netVars, last_failed_op_net_position,
                   dispatchVars, pc, pending>>

\* Workspace::DeleteNet.
DeleteNet(w, name) ==
    /\ pc = "idle"
    /\ IF net_map_[w][name] # NoNet
       THEN /\ net_map_' = [net_map_ EXCEPT ![w][name] = NoNet]
            /\ nets' = Destroy(nets, net_map_[w][name])
       ELSE UNCHANGED <<net_map_, nets>>
    /\ ret' = Ret("DeleteNet", w, name, FALSE, TRUE, NoBlob, NoNet, <<>>)
    /\ UNCHANGED <<rnnVars, wsVars, blobVars, nextNet, last_failed_op_net_position,
                   dispatchVars, pc, pending>>

\* Workspace::RunNet. Run() through an empty entry dereferences a null
\* pointer: any outcome (ub).
RunNet(w, name, ub) ==
    /\ pc = "idle"
    /\ ret' =
         IF net_map_[w][name] = NoNet
         THEN Ret("RunNet", w, name, FALSE, FALSE, NoBlob, NoNet, <<"unknown">>)
         ELSE IF net_map_[w][name] = NullEntry
         THEN Ret("RunNet", w, name, ub, ub, NoBlob, NoNet, <<"null deref">>)
         ELSE LET r == NetRun(nets[net_map_[w][name]].ops, 1, 0)
              IN  Ret("RunNet", w, name, FALSE, r.ok, NoBlob,
                      net_map_[w][name], <<r.executed>>)
    /\ UNCHANGED <<rnnVars, wsVars, blobVars, netVars, last_failed_op_net_position,
                   dispatchVars, pc, pending>>

\* Workspace::RunOperatorOnce after its CreateOperator call gave c: the
\* null check, then one Run. CreateOperator never returns null, so a failed
\* construction leaves as its exception.
RunOperatorOnceResult(c) ==
    [threw |-> c.op.status = "throw",
     ok |-> c.op.status = "op" /\ OpRun(Instance(c)),
     bm |-> c.op.bm, nb |-> c.op.nb, lf |-> c.lf,
     aux |-> <<c.op.status>>]

RunOperatorOnceApply(w, r) ==
    /\ r.nb <= MaxBlobs + 1
    /\ blob_map_' = r.bm
    /\ nextBlob' = r.nb
    /\ last_failed_op_net_position' = r.lf
    /\ ret' = Ret("RunOperatorOnce", w, "", r.threw, r.ok, NoBlob,
                  NoNet, r.aux)

\* Workspace::RunOperatorOnce: CreateOperator with the default net position.
RunOperatorOnce(w, def) ==
    /\ pc = "idle"
    /\ RunOperatorOnceApply(w,
          RunOperatorOnceResult(
             CreateOperator(def, blob_map_, nextBlob, w, 0,
                            last_failed_op_net_position)))
    /\ UNCHANGED <<rnnVars, wsVars, blobVal, netVars, dispatchVars, pc, pending>>

\* RunNetOnce going through the net map: the entry of the name is gone
\* after the run.
RunNetOnceResult_ThroughMap(r, nm, w, def) ==
    [threw |-> r.status # "net",
     ok |-> r.status = "net" /\ NetRun(r.ops, 1, 0).ok,
     nm |-> IF def.has_name THEN [nm EXCEPT ![w][def.name] = NoNet] ELSE nm,
     bm |-> r.bm, nb |-> r.nb, lf |-> r.lf,
     aux |-> <<r.status, def>>]

\* Workspace::RunNetOnce after caffe2::CreateNet gave r: a null net is a
\* CAFFE_THROW, otherwise the net runs once and is dropped; net_map_ (nm)
\* takes no part.
RunNetOnceResult(r, nm, w, def) ==
    [threw |-> r.status # "net",
     ok |-> r.status = "net" /\ NetRun(r.ops, 1, 0).ok,
     nm |-> nm, bm |-> r.bm, nb |-> r.nb, lf |-> r.lf,
     aux |-> <<r.status, def>>]

RunNetOnceApply(w, name, r) ==
    /\ r.nb <= MaxBlobs + 1
    /\ net_map_' = r.nm
    /\ blob_map_' = r.bm
    /\ nextBlob' = r.nb
    /\ last_failed_op_net_position' = r.lf
    /\ ret' = Ret("RunNetOnce", w, name, r.threw, r.ok, NoBlob, NoNet, r.aux)

RunNetOnce(w, def) ==
    /\ pc = "idle"
    /\ RunNetOnceApply(w, def.name,
          RunNetOnceResult(
             NetCreate(def, blob_map_, nextBlob, w,
                       last_failed_op_net_position), net_map_, w, def))
    /\ UNCHANGED <<rnnVars, wsVars, blobVal, nets, nextNet, dispatchVars, pc, pending>>

\* ------------------------------------------------------------ initial state
\* REGISTER_CPU_OPERATOR / REGISTER_CUDA_OPERATOR of net_test.cc in the
\* two device registries of operator.cc.
TestRegistry ==
    [d \in {"CPU", "CUDA"} |->
        [k \in {<<"NetTestDummy">>, <<"NetTestDummy2">>} |-> "ok"]]

\* ------------------------------------------- recurrent network operator
\* A row of the state tensor is a tuple: Stale before any write, <<v>> for
\* a row of the initial state, <<t, rows read>> for what step t wrote.
Stale == <<>>

\* detail::Link and detail::OffsetAlias.
Link(internal, external, offset, window) ==
    [internal |-> internal, external |-> external,
     offset |-> offset, window |-> window]
OffsetAlias(src, dstName, offset) ==
    [src |-> src, dst |-> dstName, offset |-> offset]

\* A view made by ShareExternalPointer: len rows from row start (0-based).
View(start, len) == [start |-> start, len |-> len]
NoView == View(0, 0)

\* The links of a step net that reads the previous initialStateLength
\* rows of the state and writes the next one.
StepLinks(initialStateLength) ==
    <<Link("h_prev", "state", 0, initialStateLength),
      Link("h", "state", initialStateLength, 1)>>
InternalNames == {"h_prev", "h"}

AliasOffsets == {-1, 0, 1}
StateLengths == {1, 2}

\* The operators the runs are made with: with or without a backward step
\* net, with or without rnnExecutor_, one recurrent state and one alias.
RecurrentOps ==
    {[has_backward_pass |-> b, rnnExecutor_ |-> e, initialStateLength |-> n,
      links_ |-> StepLinks(n),
      aliases_ |-> <<OffsetAlias("state", "out", o)>>] :
        b \in BOOLEAN, e \in BOOLEAN, n \in StateLengths, o \in AliasOffsets}

links_(op) == op.links_

\* A node of the step graph: an OperatorDef with its control inputs and
\* its arguments.
StepNode(type, input, output, control_input, arg) ==
    [type |-> type, input |-> input, output |-> output,
     control_input |-> control_input, arg |-> arg]

HasInput(op, name) == \E i \in 1..Len(op.input) : op.input[i] = name
HasOutput(op, name) == \E i \in 1..Len(op.output) : op.output[i] = name

\* The link-application node AddApplyLinkOps builds for a link.
LinkNode(link, timestepName) ==
    StepNode("rnn_internal_apply_link",
             <<timestepName, link.external>>,
             <<link.internal, link.external>>, <<>>,
             <<<<"offset", link.offset>>, <<"window", link.window>>>>)

\* The loop of AddApplyLinkOps over the nodes of the graph from the i-th
\* on: a node with the blob among its inputs is passed over, the first
\* other node with the blob among its outputs gets the control input.
RECURSIVE AddControlInput(_, _, _)
AddControlInput(ops, i, name) ==
    IF i > Len(ops) THEN ops
    ELSE IF HasInput(ops[i], name) THEN AddControlInput(ops, i + 1, name)
    ELSE IF HasOutput(ops[i], name)
         THEN [ops EXCEPT ![i].control_input = Append(@, name)]
    ELSE AddControlInput(ops, i + 1, name)

\* PrependOps putting the new nodes behind the nodes of the graph.
PrependOps_Behind(ops, def) == [def EXCEPT !.op = def.op \o ops]

\* PrependOps: the new nodes, then the nodes of the graph.
PrependOps(ops, def) == [def EXCEPT !.op = ops \o def.op]

\* AddApplyLinkOps from the i-th link on; ops are the link nodes built so
\* far.
RECURSIVE AddApplyLinkOpsLoop(_, _, _, _, _)
AddApplyLinkOpsLoop(links, i, timestepName, ops, def) ==
    IF i > Len(links) THEN PrependOps(ops, def)
    ELSE AddApplyLinkOpsLoop(
            links, i + 1, timestepName,
            Append(ops, LinkNode(links[i], timestepName)),
            [def EXCEPT
                !.op = AddControlInput(def.op, 1, links[i].internal),
                !.external_input =
                    @ \o <<links[i].internal, links[i].external>>])

AddApplyLinkOps(links, timestepName, def) ==
    AddApplyLinkOpsLoop(links, 1, timestepName, <<>>, def)

FLAGS_caffe2_rnn_executor == TRUE

\* The constructor of RecurrentNetworkOp on its arguments: the step net
\* with the timestep as external input and the link nodes in front, the
\* executor or the plain step net with its type settled.
StepNetTyped(def) ==
    IF def.type = "rnn" THEN [def EXCEPT !.type = "async_simple"] ELSE def

RecurrentNetworkOpBuilt(arg, def) ==
    IF FLAGS_caffe2_rnn_executor /\ arg.enable_rnn_executor
    THEN [threw |-> FALSE, rnnExecutor_ |-> TRUE, def |-> def]
    ELSE [threw |-> StepNetTyped(def).type = "async_dag",
          rnnExecutor_ |-> FALSE, def |-> StepNetTyped(def)]

RecurrentNetworkOp(arg) ==
    RecurrentNetworkOpBuilt(arg,
        AddApplyLinkOps(arg.links, "timestep",
            [arg.step_net EXCEPT !.external_input = Append(@, "timestep")]))


StepWsIds == 1..(MaxSeqLen + 4)
\* A step workspace as make_shared<Workspace>(sharedBlobsWs.get()) leaves
\* it: no blob and no net of its own; constructions counts the nets
\* caffe2::CreateNet has returned for it.
NoStepWs == [timestep |-> -1, net |-> NoNet, constructions |-> 0,
             blob_map_ |-> {},
             internal |-> [n \in InternalNames |-> NoView]]

NoStepNetDef == NetDef(FALSE, "", "", <<>>, <<>>, <<>>)

\* No recurrent operator in the workspace.
NoRecurrentOp ==
    [has_backward_pass |-> FALSE, rnnExecutor_ |-> FALSE,
     initialStateLength |-> 1, links_ |-> <<>>, aliases_ |-> <<>>]

\* Before the operator runs for the first time: empty scratch output.
NoRecurrent ==
    /\ stepWorkspaces = <<>>
    /\ sharedBlobsWs = FALSE
    /\ stepWs = [c \in StepWsIds |-> NoStepWs]
    /\ nextStepWs = 1
    /\ seqLen = 0
    /\ primed = <<>>
    /\ state = <<>>
    /\ dst = NoView
    /\ timestep = 0
    /\ slot = 0
    /\ timestepWs = <<>>

InitWorkspaces ==
    /\ nWs = 1
    /\ shared_ = [w \in WS |-> NoWs]
    /\ blob_map_ = [w \in WS |-> [n \in Names |-> NoBlob]]
    /\ forwarded_blobs_ = [w \in WS |-> [n \in Names |-> NoFwd]]
    /\ blobVal = [b \in 1..MaxBlobs |-> 0]
    /\ nextBlob = 1
    /\ net_map_ = [w \in WS |-> [n \in NetNames |-> NoNet]]
    /\ nets = [i \in 1..MaxNets |-> NoNetObj]
    /\ nextNet = 1
    /\ last_failed_op_net_position = [w \in WS |-> Indeterminate]
    /\ pc = "idle"
    /\ pending = NoPending
    /\ ret = NoRet
    /\ NoRecurrent

InitDispatch ==
    /\ g_per_op_engine_pref = <<>>
    /\ g_global_engine_pref = [d \in {"CUDA"} |-> <<CUDNN>>]
    /\ FLAGS_caffe2_disable_implicit_engine_preference = FALSE

Init ==
    /\ InitWorkspaces
    /\ InitDispatch
    /\ registry = TestRegistry
    /\ rnnOp = NoRecurrentOp
    /\ stepNetDef_ = NoStepNetDef

\* ------------------------------------------------------- dispatch actions
EngA == <<"A">>
EngB == <<"B">>
EngC == <<"C">>
EngD == <<"D">>

\* registry->Has(op_type).
RegistryHas(device, key) == Creator(device, key) # "absent"

\* The validation of SetPerOpEnginePref without the loop over the
\* operator types.
PerOpPrefValid_DevicesOnly(pref) ==
    \A d \in DOMAIN pref : d \in DOMAIN registry

\* The validation loops of SetPerOpEnginePref: every device type of the
\* argument is registered and every operator type is in its registry.
PerOpPrefValid(pref) ==
    \A d \in DOMAIN pref :
        /\ d \in DOMAIN registry
        /\ \A t \in DOMAIN pref[d] : RegistryHas(d, <<t>>)

\* SetPerOpEnginePref: the table is assigned after the loops passed.
SetPerOpEnginePref(pref) ==
    /\ pc = "idle"
    /\ g_per_op_engine_pref' =
          IF PerOpPrefValid(pref) THEN pref ELSE g_per_op_engine_pref
    /\ ret' = Ret("SetPerOpEnginePref", NoWs, "", ~PerOpPrefValid(pref),
                  PerOpPrefValid(pref), NoBlob, NoNet, <<pref>>)
    /\ UNCHANGED <<rnnVars, wsVars, blobVars, netVars, last_failed_op_net_position,
                   registry, g_global_engine_pref,
                   FLAGS_caffe2_disable_implicit_engine_preference,
                   pc, pending>>

GlobalPrefValid(pref) == \A d \in DOMAIN pref : d \in DOMAIN registry

\* SetGlobalEnginePref.
SetGlobalEnginePref(pref) ==
    /\ pc = "idle"
    /\ g_global_engine_pref' =
          IF GlobalPrefValid(pref) THEN pref ELSE g_global_engine_pref
    /\ ret' = Ret("SetGlobalEnginePref", NoWs, "", ~GlobalPrefValid(pref),
                  GlobalPrefValid(pref), NoBlob, NoNet, <<pref>>)
    /\ UNCHANGED <<rnnVars, wsVars, blobVars, netVars, last_failed_op_net_position,
                   registry, g_per_op_engine_pref,
                   FLAGS_caffe2_disable_implicit_engine_preference,
                   pc, pending>>

CreateOperatorApply(w, def, net_position, c) ==
    /\ c.op.nb <= MaxBlobs + 1
    /\ blob_map_' = c.op.bm
    /\ nextBlob' = c.op.nb
    /\ last_failed_op_net_position' = c.lf
    /\ ret' = Ret("CreateOperator", w, "", c.op.status = "throw",
                  c.op.status = "op", NoBlob, NoNet,
                  <<def, c.op.tried, c.op.engine, c.net_position,
                    net_position>>)

\* A call of CreateOperator(operator_def, ws, net_position); the instance
\* is dropped by the caller.
CreateOperatorCall(w, def, net_position) ==
    /\ pc = "idle"
    /\ CreateOperatorApply(w, def, net_position,
          CreateOperator(def, blob_map_, nextBlob, w, net_position,
                         last_failed_op_net_position))
    /\ UNCHANGED <<rnnVars, wsVars, blobVal, netVars, dispatchVars, pc, pending>>

\* Engine strings of the operator defs handed to dispatch.
EngineStrings ==
    {<<>>, <<"A", Comma, "B">>, <<"B", Comma, "A">>, DEFAULT \o <<Comma, "B">>}

DispatchDefs ==
    {OpDef("NetTestDummy", <<>>, <<"y">>, "CPU", e, FALSE) :
        e \in EngineStrings}
    \cup {OpDef("NetTestDummy", <<"x">>, <<"y">>, "CPU", <<"A", Comma, "B">>,
                FALSE),
          OpDef("NetTestDummy", <<>>, <<"y">>, "MKLDNN", <<"A", Comma, "B">>,
                FALSE)}

PerOpPrefs ==
    {<<>>,
     [d \in {"CPU"} |-> [t \in {"NetTestDummy"} |-> <<EngC>>]],
     [d \in {"CPU"} |-> [t \in {"NoSuchOp"} |-> <<EngC>>]],
     [d \in {"MKLDNN"} |-> [t \in {"NetTestDummy"} |-> <<EngC>>]]}

GlobalPrefs ==
    {<<>>,
     [d \in {"CPU"} |-> <<EngD>>],
     [d \in {"MKLDNN"} |-> <<EngD>>]}

\* The CPU registries dispatch is checked against: NetTestDummy with a
\* creator, or none, under its bare type and under each engine.
DispatchRegistries ==
    {[d \in {"CPU", "CUDA"} |->
        IF d = "CUDA" THEN TestRegistry[d]
        ELSE (<<"NetTestDummy">> :> bare)
             @@ (OpRegistryKey("NetTestDummy", EngA) :> a)
             @@ (OpRegistryKey("NetTestDummy", EngB) :> b)
             @@ (OpRegistryKey("NetTestDummy", EngC) :> c)
             @@ (OpRegistryKey("NetTestDummy", EngD) :> dd)] :
        bare \in {"absent", "ok"}, a \in Behaviours, b \in Behaviours,
        c \in {"absent", "ok"}, dd \in {"absent", "ok"}}

InitDispatchSpec ==
    /\ InitWorkspaces
    /\ g_per_op_engine_pref = <<>>
    /\ g_global_engine_pref = [d \in {"CUDA"} |-> <<CUDNN>>]
    /\ FLAGS_caffe2_disable_implicit_engine_preference \in BOOLEAN
    /\ registry \in DispatchRegistries
    /\ rnnOp = NoRecurrentOp
    /\ stepNetDef_ = NoStepNetDef

NextDispatch ==
    \/ \E p \in PerOpPrefs : SetPerOpEnginePref(p)
    \/ \E p \in GlobalPrefs : SetGlobalEnginePref(p)
    \/ \E w \in Live, d \in DispatchDefs, np \in {0, 1} :
          CreateOperatorCall(w, d, np)

SpecDispatch == InitDispatchSpec /\ [][NextDispatch]_vars

\* Operator defs that alias an input and an output: the pair (1, 0) is
\* outside the allow-list of NetTestDummy and inside that of NetTestDummy2;
\* NoSchemaOp has no schema.
OpInplaceBad == OpDef("NetTestDummy", <<"y", "x">>, <<"x">>, "CPU", <<>>, FALSE)
OpInplaceOk == OpDef("NetTestDummy2", <<"y", "x">>, <<"x">>, "CPU", <<>>, FALSE)
OpNoSchema == OpDef("NoSchemaOp", <<"y", "x">>, <<"x">>, "CPU", <<>>, FALSE)
CreateDefs == {OpX, OpXY, OpNoImpl, OpInplaceBad, OpInplaceOk, OpNoSchema}

\* The registries of net_test.cc, with or without a creator for an
\* operator type that has no schema.
SchemaRegistries ==
    {[d \in {"CPU", "CUDA"} |->
        IF d = "CUDA" THEN TestRegistry[d]
        ELSE TestRegistry[d] @@ (<<"NoSchemaOp">> :> b)] :
        b \in {"absent", "ok"}}

InitCreate ==
    /\ InitWorkspaces
    /\ InitDispatch
    /\ registry \in SchemaRegistries
    /\ rnnOp = NoRecurrentOp
    /\ stepNetDef_ = NoStepNetDef

\* One workspace and the operators constructed in it, at net positions
\* from 0.
NextCreate ==
    \/ \E w \in Live, n \in Names : CreateBlobCall(w, n)
    \/ \E w \in Live, d \in CreateDefs, np \in 0..MaxNets :
          CreateOperatorCall(w, d, np)

SpecCreate == InitCreate /\ [][NextCreate]_vars

\* ------------------------------------------------- the composite setters
\* The device types in the order of their DeviceType values, the order in
\* which a CaffeMap<int, EnginePrefType> is walked.
DeviceOrder == <<"CPU", "CUDA", "MKLDNN">>

\* g_per_op_engine_pref()[device_type][op_type] = pref.
PerOpEntrySet(table, d, t, pref) ==
    [dd \in DOMAIN table \cup {d} |->
        IF dd # d THEN table[dd]
        ELSE [tt \in (IF d \in DOMAIN table THEN DOMAIN table[d] ELSE {})
                        \cup {t} |->
                 IF tt = t THEN pref ELSE table[d][tt]]]

\* The loop of SetOpEnginePref from the i-th device type on: for a device
\* of op_pref the two enforces, then the assignment of its entry.
RECURSIVE SetOpEnginePrefLoop(_, _, _, _)
SetOpEnginePrefLoop(table, op_type, op_pref, i) ==
    IF i > Len(DeviceOrder) THEN [threw |-> FALSE, table |-> table]
    ELSE IF DeviceOrder[i] \notin DOMAIN op_pref
         THEN SetOpEnginePrefLoop(table, op_type, op_pref, i + 1)
    ELSE IF \/ DeviceOrder[i] \notin DOMAIN registry
            \/ ~RegistryHas(DeviceOrder[i], <<op_type>>)
         THEN [threw |-> TRUE, table |-> table]
    ELSE SetOpEnginePrefLoop(
            PerOpEntrySet(table, DeviceOrder[i], op_type,
                          op_pref[DeviceOrder[i]]),
            op_type, op_pref, i + 1)

SetOpEnginePrefDone(op_type, op_pref, r) ==
    /\ g_per_op_engine_pref' = r.table
    /\ ret' = Ret("SetOpEnginePref", NoWs, op_type, r.threw, ~r.threw,
                  NoBlob, NoNet, <<op_pref>>)

\* SetOpEnginePref(op_type, op_pref).
SetOpEnginePref(op_type, op_pref) ==
    /\ pc = "idle"
    /\ SetOpEnginePrefDone(op_type, op_pref,
          SetOpEnginePrefLoop(g_per_op_engine_pref, op_type, op_pref, 1))
    /\ UNCHANGED <<rnnVars, wsVars, blobVars, netVars,
                   last_failed_op_net_position, registry,
                   g_global_engine_pref,
                   FLAGS_caffe2_disable_implicit_engine_preference,
                   pc, pending>>

\* SetEnginePref: SetPerOpEnginePref, then SetGlobalEnginePref; an
\* exception of the first leaves before the second is called.
SetEnginePref(per_op, global) ==
    /\ pc = "idle"
    /\ g_per_op_engine_pref' =
          IF PerOpPrefValid(per_op) THEN per_op ELSE g_per_op_engine_pref
    /\ g_global_engine_pref' =
          IF PerOpPrefValid(per_op) /\ GlobalPrefValid(global)
          THEN global ELSE g_global_engine_pref
    /\ ret' = Ret("SetEnginePref", NoWs, "",
                  ~(PerOpPrefValid(per_op) /\ GlobalPrefValid(global)),
                  PerOpPrefValid(per_op) /\ GlobalPrefValid(global),
                  NoBlob, NoNet, <<per_op, global>>)
    /\ UNCHANGED <<rnnVars, wsVars, blobVars, netVars,
                   last_failed_op_net_position, registry,
                   FLAGS_caffe2_disable_implicit_engine_preference,
                   pc, pending>>

\* The arguments of SetOpEnginePref: engine lists for one or two device
\* types, registered or not.
OpPrefs ==
    {[d \in {"CPU"} |-> <<EngA>>],
     [d \in {"CPU", "CUDA"} |-> <<EngB>>],
     [d \in {"CPU", "MKLDNN"} |-> <<EngC>>],
     [d \in {"MKLDNN"} |-> <<EngD>>]}
OpTypes == {"NetTestDummy", "NetTestDummy2", "NoSuchOp"}

\* The preference tables under all four setters, the registry fixed.
NextPrefs ==
    \/ \E p \in PerOpPrefs : SetPerOpEnginePref(p)
    \/ \E p \in GlobalPrefs : SetGlobalEnginePref(p)
    \/ \E p \in PerOpPrefs, g \in GlobalPrefs : SetEnginePref(p, g)
    \/ \E t \in OpTypes, p \in OpPrefs : SetOpEnginePref(t, p)

SpecPrefs == Init /\ [][NextPrefs]_vars

\* One workspace with its blobs and nets: every call of the Workspace
\* interface and the operator constructions they make.
Next ==
    \/ \E w \in Live, n \in Names : CreateBlobCall(w, n)
    \/ \E w \in Live, n \in Names : GetBlobCall(w, n)
    \/ \E b \in 1..MaxBlobs, v \in 1..MaxVal : WriteBlob(b, v)
    \/ \E w \in Live, d \in NetDefs, o \in BOOLEAN : CreateNetBegin(w, d, o)
    \/ \E l \in BOOLEAN : CreateNetConstruct(l)
    \/ CreateNetInstall
    \/ \E w \in Live, n \in NetNames : GetNetCall(w, n)
    \/ \E w \in Live, n \in NetNames : DeleteNet(w, n)
    \/ \E w \in Live, n \in NetNames, ub \in BOOLEAN : RunNet(w, n, ub)
    \/ \E w \in Live, d \in OpDefs : RunOperatorOnce(w, d)
    \/ \E w \in Live, d \in OnceNetDefs : RunNetOnce(w, d)

Spec == Init /\ [][Next]_vars

\* Chains of workspaces and the resolution of blob names through them.
NextBlob ==
    \/ \E p \in 0..nWs : NewWorkspace(p)
    \/ \E w \in Live, n \in Names, src \in Live, sn \in Names :
          src < w /\ AddBlobMapping(w, n, src, sn)
    \/ \E w \in Live, n \in Names : CreateBlobCall(w, n)
    \/ \E w \in Live, n \in Names : GetBlobCall(w, n)
    \/ \E w \in Live, n \in Names : HasBlobCall(w, n)
    \/ \E b \in 1..MaxBlobs, v \in 1..MaxVal : WriteBlob(b, v)

SpecBlob == Init /\ [][NextBlob]_vars

\* A workspace with blobs and nets of its own and the workspace that
\* shares it, on which every operation of the interface is called.
ChildOpDefs == {OpX, OpXY, OpNoImpl}
ChildNetDefs ==
    {NetDef(TRUE, "n", "", <<OpXY>>, <<>>, <<>>),
     NetDef(TRUE, "n", "", <<OpX, OpXYFail>>, <<>>, <<>>),
     NetDef(TRUE, "n", "bogus", <<OpX>>, <<>>, <<>>)}

NextChild ==
    \/ NewWorkspace(1)
    \/ \E n \in Names : CreateBlobCall(1, n)
    \/ \E w \in Live, d \in ChildNetDefs, o \in BOOLEAN :
          CreateNetBegin(w, d, o)
    \/ \E l \in BOOLEAN : CreateNetConstruct(l)
    \/ CreateNetInstall
    \/ \E w \in Live \ {1}, n \in Names : CreateBlobCall(w, n)
    \/ \E w \in Live \ {1}, n \in Names : GetBlobCall(w, n)
    \/ \E w \in Live \ {1}, n \in Names : HasBlobCall(w, n)
    \/ \E w \in Live \ {1} : DeleteNet(w, "n")
    \/ \E w \in Live \ {1}, ub \in BOOLEAN : RunNet(w, "n", ub)
    \/ \E w \in Live \ {1}, d \in ChildOpDefs : CreateOperatorCall(w, d, 0)

SpecChild == Init /\ [][NextChild]_vars

\* --------------------------------------- recurrent network operator: run
otherVars == <<wsVars, blobVars, netVars, last_failed_op_net_position,
               dispatchVars, pending>>

\* std::vector::resize to a larger size: the new entries are null.
Resize(vec, n) == vec \o [i \in 1..(n - Len(vec)) |-> NoWs]

num_workspaces_on_fwd_only(op) == IF op.rnnExecutor_ THEN 4 ELSE 2

\* stepWorkspaces resized to seqLen in every run with a backward pass.
StepWorkspacesSized_Exact(vec, op, T) ==
    IF op.has_backward_pass
    THEN [i \in 1..T |-> IF i <= Len(vec) THEN vec[i] ELSE NoWs]
    ELSE IF Len(vec) < num_workspaces_on_fwd_only(op)
         THEN Resize(vec, num_workspaces_on_fwd_only(op))
         ELSE vec

\* The two resizes of stepWorkspaces in DoRunWithType.
StepWorkspacesSized(vec, op, T) ==
    IF op.has_backward_pass
    THEN IF T > Len(vec) THEN Resize(vec, T) ELSE vec
    ELSE IF Len(vec) < num_workspaces_on_fwd_only(op)
         THEN Resize(vec, num_workspaces_on_fwd_only(op))
         ELSE vec

\* initializeRecurrentInput: the state tensor resized to seqLen +
\* initialStateLength rows, the initial rows copied from the input.
initializeRecurrentInput(T, input) ==
    [i \in 1..(T + Len(input)) |-> IF i <= Len(input) THEN input[i] ELSE Stale]

\* The slot of a timestep without cycling over the pool.
StepSlot_NoCycle(t, op) == t

\* The index into stepWorkspaces of timestep t.
StepSlot(t, op) ==
    IF op.has_backward_pass THEN t ELSE t % num_workspaces_on_fwd_only(op)

\* The link node pointing its view at row t of the external tensor.
ApplyLink_NoOffset(t, link) == View(t, link.window)

\* RNNApplyLinkOp: the internal blob becomes a view of window rows of the
\* external tensor from row t + offset.
ApplyLink(t, link) == View(t + link.offset, link.window)

InBounds(st, v) == v.start >= 0 /\ v.start + v.len <= Len(st)
ReadView(st, v) == [i \in 1..v.len |-> st[v.start + i]]
WriteView(st, v, val) == [st EXCEPT ![v.start + 1] = val]

\* The link nodes AddApplyLinkOps put in front of the step net, reading
\* the timestep blob of their workspace.
RunLinks(wsrec, links) ==
    [wsrec EXCEPT !.internal =
        [n \in InternalNames |->
            ApplyLink(wsrec.timestep,
                      links[CHOOSE i \in 1..Len(links) : links[i].internal = n])]]

LinksInBounds(st, wsrec) ==
    \A n \in InternalNames : InBounds(st, wsrec.internal[n])

\* The operator of the step net: h from the timestep and the rows of h_prev.
StepOp(st, wsrec) ==
    WriteView(st, wsrec.internal["h"],
              <<wsrec.timestep>> \o ReadView(st, wsrec.internal["h_prev"]))

\* One run of the step net in a step workspace whose links were applied.
StepNetDone(st, linked) ==
    [ok |-> LinksInBounds(st, linked),
     ws |-> linked,
     state |-> IF LinksInBounds(st, linked) THEN StepOp(st, linked) ELSE st]
StepNetRun(st, wsrec, links) == StepNetDone(st, RunLinks(wsrec, links))

\* The blobs of the caller's workspace sharedWs_: the inputs and outputs of
\* the recurrent operator and the state blob constructRecurrentInputs
\* creates there. sharedBlobsWs, between it and the step workspaces, has no
\* blob of its own.
SharedWsBlobs == {"input", "init", "state", "out"}

\* Workspace::HasBlob in a step workspace: its own map, then the parents.
StepHasBlob(wsrec, name) ==
    name \in wsrec.blob_map_ \/ name \in SharedWsBlobs

\* The workspace that owns the blob a name resolves to in a step workspace.
StepGetBlob(wsrec, name) ==
    IF name \in wsrec.blob_map_ THEN "step"
    ELSE IF name \in SharedWsBlobs THEN "sharedWs_"
    ELSE "nullptr"

\* CreateBlob adding the name to the step workspace whatever its parents
\* hold.
StepCreateBlob_Local(wsrec, name) ==
    [wsrec EXCEPT !.blob_map_ = @ \cup {name}]

\* Workspace::CreateBlob in a step workspace.
StepCreateBlob(wsrec, name) ==
    IF StepHasBlob(wsrec, name) THEN wsrec
    ELSE [wsrec EXCEPT !.blob_map_ = @ \cup {name}]

\* UpdateTimestepBlob.
UpdateTimestepBlob(wsrec, blob_name, t) ==
    [StepCreateBlob(wsrec, blob_name) EXCEPT !.timestep = t]

\* The executor's step in its workspace: the timestep it was set up for.
StepWsPrepared(wsrec, t) == [wsrec EXCEPT !.timestep = t]

\* OperatorBase::OperatorBase on a node of the step net: every input is a
\* blob of the workspace, every output is created.
StepOperatorInputs(wsrec, op) ==
    \A i \in 1..Len(op.input) : StepHasBlob(wsrec, op.input[i])

RECURSIVE StepOperatorOutputs(_, _, _)
StepOperatorOutputs(wsrec, output, i) ==
    IF i > Len(output) THEN wsrec
    ELSE StepOperatorOutputs(StepCreateBlob(wsrec, output[i]), output, i + 1)

\* GetSingleArgument<int>(name, -1) on a node.
GetSingleArgument(op, name) ==
    IF \E i \in 1..Len(op.arg) : op.arg[i][1] = name
    THEN op.arg[CHOOSE i \in 1..Len(op.arg) : op.arg[i][1] = name][2]
    ELSE -1

\* RNNApplyLinkOp::RNNApplyLinkOp after its base: offset and window set.
RNNApplyLinkOp(op) ==
    op.type = "rnn_internal_apply_link" =>
        /\ GetSingleArgument(op, "offset") >= 0
        /\ GetSingleArgument(op, "window") >= 0

\* The operators of the step net constructed in node order in a step
\* workspace, from the k-th on; the blobs created before a constructor
\* throws stay.
RECURSIVE StepNetOperators(_, _, _)
StepNetOperators(wsrec, ops, k) ==
    IF k > Len(ops) THEN [threw |-> FALSE, ws |-> wsrec]
    ELSE IF ~StepOperatorInputs(wsrec, ops[k])
         THEN [threw |-> TRUE, ws |-> wsrec]
    ELSE IF ~RNNApplyLinkOp(ops[k])
         THEN [threw |-> TRUE,
               ws |-> StepOperatorOutputs(wsrec, ops[k].output, 1)]
    ELSE StepNetOperators(StepOperatorOutputs(wsrec, ops[k].output, 1),
                          ops, k + 1)

\* The net map of a step workspace, which holds at most the step net.
StepNetMap(wsrec, name) == <<[n \in {name} |-> wsrec.net]>>

\* Workspace::CreateNet(stepNetDef_) in a step workspace: refused for a net
\* without name or with an entry of its name; an empty entry stays when
\* the subscript ran before a construction that threw (lhsFirst).
StepCreateNetDone(wsrec, e, c, lhsFirst) ==
    IF e.threw THEN [threw |-> TRUE, net |-> NoNet, ws |-> wsrec]
    ELSE IF c.threw
         THEN [threw |-> TRUE, net |-> NoNet,
               ws |-> [c.ws EXCEPT !.net = IF lhsFirst THEN NullEntry
                                           ELSE NoNet]]
    ELSE [threw |-> FALSE, net |-> c.ws.constructions + 1,
          ws |-> [c.ws EXCEPT !.net = c.ws.constructions + 1,
                              !.constructions = @ + 1]]

StepCreateNet(wsrec, def, lhsFirst) ==
    StepCreateNetDone(wsrec,
        CreateNetEntry(StepNetMap(wsrec, def.name), 1, def, FALSE),
        StepNetOperators(wsrec, def.op, 1), lhsFirst)

\* The step net looked up as if the workspace never held it.
StepNetObtained_NoCache(wsrec, def, lhsFirst) ==
    StepCreateNet(wsrec, def, lhsFirst)

\* GetNet(stepNetDef_.name()), CreateNet(stepNetDef_) when it is null, and
\* the enforce on the result.
StepNetObtained(wsrec, def, lhsFirst) ==
    IF GetNet(StepNetMap(wsrec, def.name), 1, def.name) # NoNet
    THEN [threw |-> FALSE,
          net |-> GetNet(StepNetMap(wsrec, def.name), 1, def.name),
          ws |-> wsrec]
    ELSE StepCreateNet(wsrec, def, lhsFirst)

\* The plain path of one timestep: the step net obtained and, unless that
\* failed, run.
PlainStepRun(st, got, links) ==
    IF got.threw
    THEN [threw |-> TRUE, ok |-> TRUE, net |-> NoNet, ws |-> got.ws,
          state |-> st]
    ELSE [threw |-> FALSE, ok |-> StepNetRun(st, got.ws, links).ok,
          net |-> got.net, ws |-> StepNetRun(st, got.ws, links).ws,
          state |-> StepNetRun(st, got.ws, links).state]

\* The step net obtained and run before the timestep blob is written.
PlainStep_RunFirst(st, wsrec, t, def, links, lhsFirst) ==
    [PlainStepRun(st,
        StepNetObtained(StepCreateBlob(wsrec, "timestep"), def, lhsFirst),
        links)
     EXCEPT !.ws.timestep = t]

\* The body of the loop for plain Caffe2 nets: UpdateTimestepBlob, the
\* step net obtained, the step net run.
PlainStep(st, wsrec, t, def, links, lhsFirst) ==
    PlainStepRun(st,
        StepNetObtained(UpdateTimestepBlob(wsrec, "timestep", t), def,
                        lhsFirst),
        links)

\* EnsureTimestepInitialized: the executor keeps the workspace of timestep t.
EnsureTimestepInitialized(tw, t, c) ==
    IF t < Len(tw) THEN [tw EXCEPT ![t + 1] = c] ELSE Append(tw, c)

\* RecurrentNetworkExecutorBase::Run: the steps 0..T-1, each in the
\* workspace kept for it, a step after the steps whose rows it reads.
RECURSIVE ExecutorRun(_, _, _, _, _, _)
ExecutorStep(r, tw, t, T, links) ==
    ExecutorRun(r.state, r.sw, tw, t + 1, T, links) 
ExecutorRun(st, sw, tw, t, T, links) ==
    IF t >= T THEN [ok |-> TRUE, state |-> st, sw |-> sw]
    ELSE IF ~LinksInBounds(st, RunLinks(StepWsPrepared(sw[tw[t + 1]], t), links))
         THEN [ok |-> FALSE, state |-> st, sw |-> sw]
    ELSE ExecutorStep(
            [state |-> StepNetRun(st, StepWsPrepared(sw[tw[t + 1]], t), links).state,
             sw |-> [sw EXCEPT ![tw[t + 1]] =
                        RunLinks(StepWsPrepared(sw[tw[t + 1]], t), links)]],
            tw, t, T, links)

\* applyOffsetAlias with a negative offset counted from the last row.
applyOffsetAlias_FromLastRow(dim0, oc) ==
    [ok |-> dim0 - (IF oc.offset >= 0 THEN oc.offset
                    ELSE dim0 - 1 + oc.offset) >= 1,
     view |-> View(IF oc.offset >= 0 THEN oc.offset ELSE dim0 - 1 + oc.offset,
                   dim0 - (IF oc.offset >= 0 THEN oc.offset
                           ELSE dim0 - 1 + oc.offset))]

\* applyOffsetAlias on a source of dim0 rows: startDstTimestep,
\* numDstTimesteps and the enforce on it.
applyOffsetAlias(dim0, oc) ==
    [ok |-> dim0 - (IF oc.offset >= 0 THEN oc.offset
                    ELSE dim0 + oc.offset) >= 1,
     view |-> View(IF oc.offset >= 0 THEN oc.offset ELSE dim0 + oc.offset,
                   dim0 - (IF oc.offset >= 0 THEN oc.offset
                           ELSE dim0 + oc.offset))]

\* DoRunWithType up to its loop over the timesteps.
RunOnDevice(T, input) ==
    /\ pc = "idle"
    /\ Len(input) = rnnOp.initialStateLength
    /\ seqLen' = T
    /\ primed' = input
    /\ state' = initializeRecurrentInput(T, input)
    /\ sharedBlobsWs' = TRUE
    /\ stepWorkspaces' = StepWorkspacesSized(stepWorkspaces, rnnOp, T)
    /\ timestep' = 0
    /\ pc' = "timestep"
    /\ UNCHANGED <<otherVars, ret, rnnOp, stepWs, nextStepWs, dst, slot,
                   timestepWs, stepNetDef_>>

\* The body of the loop in the workspace c found or made in slot s.
TimestepIn(s, c, r) ==
    /\ stepWorkspaces' = [stepWorkspaces EXCEPT ![s + 1] = c]
    /\ nextStepWs' = IF stepWorkspaces[s + 1] = NoWs THEN nextStepWs + 1
                     ELSE nextStepWs
    /\ IF rnnOp.rnnExecutor_
       THEN /\ timestepWs' = EnsureTimestepInitialized(timestepWs, timestep, c)
            /\ pc' = "timestep"
            /\ timestep' = timestep + 1
            /\ UNCHANGED <<stepWs, state, ret>>
       ELSE /\ stepWs' = [stepWs EXCEPT ![c] = r.ws]
            /\ state' = r.state
            /\ pc' = IF r.threw THEN "idle"
                     ELSE IF r.ok THEN "timestep" ELSE "out of bounds"
            /\ ret' = IF r.threw
                      THEN Ret("RunOnDevice", 1, stepNetDef_.name, TRUE, FALSE,
                               NoBlob, NoNet, <<seqLen, primed, <<>>>>)
                      ELSE ret
            /\ timestep' = IF r.threw THEN timestep ELSE timestep + 1
            /\ UNCHANGED timestepWs

\* lhsFirst: the order the build gives the assignment of the new net in
\* Workspace::CreateNet.
TimestepAt(s, c) ==
    \E lhsFirst \in BOOLEAN :
        TimestepIn(s, c, PlainStep(state, stepWs[c], timestep, stepNetDef_,
                                   links_(rnnOp), lhsFirst))

\* One iteration of the loop over the timesteps.
Timestep ==
    /\ pc = "timestep"
    /\ timestep < seqLen
    /\ slot' = StepSlot(timestep, rnnOp)
    /\ IF StepSlot(timestep, rnnOp) >= Len(stepWorkspaces)
       THEN /\ pc' = "out of range"
            /\ UNCHANGED <<stepWorkspaces, nextStepWs, timestepWs, stepWs,
                           state, timestep, ret>>
       ELSE TimestepAt(StepSlot(timestep, rnnOp),
                       IF stepWorkspaces[StepSlot(timestep, rnnOp) + 1] # NoWs
                       THEN stepWorkspaces[StepSlot(timestep, rnnOp) + 1]
                       ELSE nextStepWs)
    /\ UNCHANGED <<otherVars, rnnOp, sharedBlobsWs, seqLen, primed, dst,
                   stepNetDef_>>

\* The end of DoRunWithType: the executor's run and the aliases.
FinishWith(r, a) ==
    /\ state' = r.state
    /\ stepWs' = r.sw
    /\ IF ~r.ok
       THEN /\ pc' = "out of bounds"
            /\ UNCHANGED <<dst, ret>>
       ELSE IF a.ok /\ ~InBounds(r.state, a.view)
       THEN /\ pc' = "out of bounds"
            /\ dst' = a.view
            /\ UNCHANGED ret
       ELSE /\ pc' = "idle"
            /\ dst' = IF a.ok THEN a.view ELSE dst
            /\ ret' = Ret("RunOnDevice", 1, "", ~a.ok, a.ok, NoBlob, NoNet,
                          <<seqLen, primed,
                            IF a.ok THEN ReadView(r.state, a.view) ELSE <<>>>>)

Finish ==
    /\ pc = "timestep"
    /\ timestep = seqLen
    /\ FinishWith(
          IF rnnOp.rnnExecutor_
          THEN ExecutorRun(state, stepWs, timestepWs, 0, seqLen, links_(rnnOp))
          ELSE [ok |-> TRUE, state |-> state, sw |-> stepWs],
          applyOffsetAlias(Len(state), rnnOp.aliases_[1]))
    /\ UNCHANGED <<otherVars, rnnOp, stepWorkspaces, sharedBlobsWs, nextStepWs,
                   seqLen, primed, timestep, slot, timestepWs, stepNetDef_>>

\* ------------------------------- recurrent network operator: construction
\* The arguments of the operator def, with the number of rows of initial
\* state its input will carry.
RecurrentArg(step_net, links, aliases, backward, enable, rows) ==
    [step_net |-> step_net, links |-> links, aliases |-> aliases,
     has_backward_pass |-> backward, enable_rnn_executor |-> enable,
     initialStateLength |-> rows]

ConstructDone(arg, r) ==
    /\ rnnOp' = IF r.threw THEN NoRecurrentOp
                ELSE [has_backward_pass |-> arg.has_backward_pass,
                      rnnExecutor_ |-> r.rnnExecutor_,
                      initialStateLength |-> arg.initialStateLength,
                      links_ |-> arg.links,
                      aliases_ |-> arg.aliases]
    /\ stepNetDef_' = IF r.threw THEN NoStepNetDef
                      ELSE r.def
    /\ ret' = Ret("RecurrentNetworkOp", 1, "", r.threw, ~r.threw, NoBlob,
                  NoNet, <<arg.step_net, arg.links>>)

\* RecurrentNetworkOp::RecurrentNetworkOp with an empty scratch output.
Construct(arg) ==
    /\ pc = "idle"
    /\ ConstructDone(arg, RecurrentNetworkOp(arg))
    /\ UNCHANGED <<otherVars, pc, stepWorkspaces, sharedBlobsWs, stepWs,
                   nextStepWs, seqLen, primed, state, dst, timestep, slot,
                   timestepWs>>

\* Nodes of step graphs over the blobs h_prev, h and a.
GraphNodes ==
    {StepNode("Step", <<i>>, <<o>>, <<>>, <<>>) :
        i \in {"h_prev", "a"}, o \in {"h_prev", "h"}}
    \cup {StepNode("Step", <<"h">>, <<"a">>, <<>>, <<>>)}

\* Step graphs of up to two nodes, of the net types the constructor
\* tells apart.
StepGraphs ==
    {NetDef(TRUE, "step", ty, ops, <<>>, <<>>) :
        ty \in {"", "rnn", "async_dag"},
        ops \in UNION {[1..n -> GraphNodes] : n \in 0..2}}

LinkLists ==
    {<<>>, <<Link("h_prev", "state", 0, 1)>>, StepLinks(1), StepLinks(2)}

ConstructArgs ==
    {RecurrentArg(g, l, <<OffsetAlias("state", "out", -1)>>, FALSE, e, 1) :
        g \in StepGraphs, l \in LinkLists, e \in BOOLEAN}

\* Constructions of recurrent operators, each a new operator.
NextConstruct == \E arg \in ConstructArgs : Construct(arg)

SpecConstruct == Init /\ [][NextConstruct]_vars

\* The step net the model runs: one operator computing h from h_prev.
StepGraph ==
    NetDef(TRUE, "step", "rnn",
           <<StepNode("Step", <<"h_prev">>, <<"h">>, <<>>, <<>>)>>,
           <<>>, <<>>)

\* stepNetDef_ of an operator constructed around StepGraph.
ConstructedStepNet(op) ==
    RecurrentNetworkOp(
        RecurrentArg(StepGraph, op.links_, op.aliases_, op.has_backward_pass,
                     op.rnnExecutor_, op.initialStateLength)).def

\* Two distinguishable rows of initial state.
PrimingRows == {<<0>>, <<1>>}

InitRecurrent ==
    /\ InitWorkspaces
    /\ InitDispatch
    /\ registry = TestRegistry
    /\ rnnOp \in RecurrentOps
    /\ stepNetDef_ = ConstructedStepNet(rnnOp)

\* Runs of one recurrent operator over inputs of every length.
NextRecurrent ==
    \/ \E T \in 0..MaxSeqLen, input \in UNION {[1..n -> PrimingRows] : n \in StateLengths} :
          RunOnDevice(T, input)
    \/ Timestep
    \/ Finish

SpecRecurrent == InitRecurrent /\ [][NextRecurrent]_vars

\* Operators with alias offsets on both sides of the rows of the state
\* tensor, and operators whose links have every small offset and window
\* the link node accepts; forward only, plain step nets.
WideOffsets == (0 - MaxSeqLen - 3)..(MaxSeqLen + 3)
BoundsOps ==
    {[has_backward_pass |-> FALSE, rnnExecutor_ |-> FALSE,
      initialStateLength |-> 1, links_ |-> StepLinks(1),
      aliases_ |-> <<OffsetAlias("state", "out", o)>>] : o \in WideOffsets}
    \cup
    {[has_backward_pass |-> FALSE, rnnExecutor_ |-> FALSE,
      initialStateLength |-> n,
      links_ |-> <<Link("h_prev", "state", 0, w), Link("h", "state", o, 1)>>,
      aliases_ |-> <<OffsetAlias("state", "out", -1)>>] :
        n \in StateLengths, w \in 0..3, o \in 0..3}

InitBounds ==
    /\ InitWorkspaces
    /\ InitDispatch
    /\ registry = TestRegistry
    /\ rnnOp \in BoundsOps
    /\ stepNetDef_ = ConstructedStepNet(rnnOp)

\* Runs of operators whose aliases and links may leave the state tensor.
SpecBounds == InitBounds /\ [][NextRecurrent]_vars

\* Step nets of the three net types the constructor tells apart, around
\* the operator of StepGraph or one whose input no node creates.
StepNetGraphs ==
    {NetDef(TRUE, "step", ty,
            <<StepNode("Step", <<i>>, <<"h">>, <<>>, <<>>)>>, <<>>, <<>>) :
        ty \in {"", "rnn", "async_dag"}, i \in {"h_prev", "a"}}

\* The links of the model's step net, and the same with an offset the
\* link node refuses.
StepNetLinks ==
    {StepLinks(1),
     <<Link("h_prev", "state", 0, 1), Link("h", "state", -1, 1)>>}

\* Plain step nets with and without backward pass, and the executor on
\* the step net of each type.
StepNetArgs ==
    {RecurrentArg(g, l, <<OffsetAlias("state", "out", -1)>>, b, FALSE, 1) :
        g \in StepNetGraphs, l \in StepNetLinks, b \in BOOLEAN}
    \cup
    {RecurrentArg([StepGraph EXCEPT !.type = ty], StepLinks(1),
                  <<OffsetAlias("state", "out", -1)>>, FALSE, TRUE, 1) :
        ty \in {"", "rnn", "async_dag"}}

\* One recurrent operator from its construction on, and its runs over the
\* scratch output it owns.
NextStepNet ==
    \/ \E arg \in StepNetArgs : rnnOp = NoRecurrentOp /\ Construct(arg)
    \/ \E T \in 0..MaxSeqLen, input \in [1..1 -> PrimingRows] :
          rnnOp # NoRecurrentOp /\ RunOnDevice(T, input)
    \/ Timestep
    \/ Finish

SpecStepNet == Init /\ [][NextStepNet]_vars

\* =================================================================== claims
\* The blob a name denotes in workspace w, by the order of the data model:
\* the local map, then the forwarded entry (resolved in its source
\* workspace under the source name), then the shared parent.
RECURSIVE Denotes(_, _)
Denotes(w, name) ==
    IF blob_map_[w][name] # NoBlob THEN blob_map_[w][name]
    ELSE IF forwarded_blobs_[w][name] # NoFwd
         THEN Denotes(forwarded_blobs_[w][name].ws,
                      forwarded_blobs_[w][name].name)
    ELSE IF shared_[w] # NoWs THEN Denotes(shared_[w], name)
    ELSE NoBlob

\* C1: GetBlob(name) returns the local blob when the local map holds the
\* name, otherwise what the source workspace resolves for a forwarded entry,
\* otherwise what the shared parent resolves; a local blob shadows both.
C1_LookupOrder ==
    /\ \A w \in Live : \A n \in Names :
          /\ GetBlob(blob_map_, w, n) = Denotes(w, n)
          /\ blob_map_[w][n] # NoBlob =>
                GetBlob(blob_map_, w, n) = blob_map_[w][n]
    /\ ret.op = "GetBlob" => ret.blob = Denotes(ret.w, ret.name)

\* C1 witness: GetBlob returned the local blob of a child whose shared
\* parent holds another blob under the same name.
C1_Witness ==
    /\ ret.op = "GetBlob"
    /\ shared_[ret.w] # NoWs
    /\ blob_map_[ret.w][ret.name] # NoBlob
    /\ blob_map_[shared_[ret.w]][ret.name] # NoBlob
    /\ blob_map_[shared_[ret.w]][ret.name] # blob_map_[ret.w][ret.name]
    /\ ret.blob = blob_map_[ret.w][ret.name]

\* C2 as stated: CreateBlob(name) returns the existing blob unchanged when
\* the name is local or forwarded and in every other case allocates a new
\* empty blob in the local map and returns it.
C2_Original ==
    [][ret'.op = "CreateBlob" =>
         IF \/ blob_map_[ret'.w][ret'.name] # NoBlob
            \/ forwarded_blobs_[ret'.w][ret'.name] # NoFwd
         THEN blob_map_' = blob_map_ /\ nextBlob' = nextBlob
         ELSE /\ blob_map_' = [blob_map_ EXCEPT ![ret'.w][ret'.name] = nextBlob]
              /\ nextBlob' = nextBlob + 1
              /\ ret'.blob = nextBlob
              /\ blobVal'[nextBlob] = 0]_vars

\* C2 amended: CreateBlob(name) allocates a new empty blob in the local map
\* and returns it only when the name resolves nowhere (not local, not through
\* a forwarded entry, not in the shared parent chain) and is no forwarded
\* entry; otherwise it allocates nothing and returns what GetBlob(name)
\* gives: the local blob, the blob of the forwarded source (null when the
\* source holds none) or the blob of the shared parent.
C2_Amended ==
    [][ret'.op = "CreateBlob" =>
         IF \/ Denotes(ret'.w, ret'.name) # NoBlob
            \/ forwarded_blobs_[ret'.w][ret'.name] # NoFwd
         THEN /\ blob_map_' = blob_map_ /\ nextBlob' = nextBlob
              /\ blobVal' = blobVal
              /\ ret'.blob = Denotes(ret'.w, ret'.name)
         ELSE /\ blob_map_' = [blob_map_ EXCEPT ![ret'.w][ret'.name] = nextBlob]
              /\ nextBlob' = nextBlob + 1
              /\ ret'.blob = nextBlob
              /\ blobVal'[nextBlob] = 0]_vars

\* C2 witness: CreateBlob on a child allocated nothing and returned the
\* blob of the shared parent.
C2_Witness ==
    /\ ret.op = "CreateBlob"
    /\ ~ret.ok
    /\ blob_map_[ret.w][ret.name] = NoBlob
    /\ forwarded_blobs_[ret.w][ret.name] = NoFwd
    /\ shared_[ret.w] # NoWs
    /\ ret.blob # NoBlob
    /\ ret.blob = blob_map_[shared_[ret.w]][ret.name]

\* C4: HasBlob(name) is true exactly when GetBlob(name) is not null, in
\* every workspace and for every name, and neither call changes a blob map,
\* a forwarding map or a net map.
C4_HasBlobIffGetBlob ==
    [][/\ \A w \in Live : \A n \in Names :
             HasBlob(blob_map_, w, n) = (GetBlob(blob_map_, w, n) # NoBlob)
       /\ ret'.op = "HasBlob" => ret'.ok = (Denotes(ret'.w, ret'.name) # NoBlob)
       /\ ret'.op \in {"HasBlob", "GetBlob"} =>
             /\ blob_map_' = blob_map_ /\ forwarded_blobs_' = forwarded_blobs_
             /\ net_map_' = net_map_ /\ nextBlob' = nextBlob
             /\ blobVal' = blobVal]_vars

\* C4 witness: HasBlob answered false for a forwarded entry whose source
\* holds no blob while the shared parent holds the name.
C4_Witness ==
    /\ ret.op = "HasBlob"
    /\ ~ret.ok
    /\ forwarded_blobs_[ret.w][ret.name] # NoFwd
    /\ shared_[ret.w] # NoWs
    /\ blob_map_[shared_[ret.w]][ret.name] # NoBlob
    /\ GetBlob(blob_map_, ret.w, ret.name) = NoBlob

\* Every blob a kernel instance of a live net is bound to is a blob of some
\* workspace in the blob maps bm.
BindingsValid(ns, bm) ==
    \A id \in 1..MaxNets : ns[id].alive =>
        \A k \in 1..Len(ns[id].ops) :
            \A b \in {ns[id].ops[k].inputs[i] : i \in 1..Len(ns[id].ops[k].inputs)}
                 \cup {ns[id].ops[k].outputs[i] :
                          i \in 1..Len(ns[id].ops[k].outputs)} :
                \E w \in WS : \E n \in Names : bm[w][n] = b

\* C3: over every call of the workspace interface a name of a local blob
\* map keeps denoting the same blob object, the payload of a blob changes
\* only by a write through it, a repeated CreateBlob returns that blob with
\* its payload, and the blobs bound by the kernel instances of live nets
\* stay blobs of the workspace.
C3_BlobsStay ==
    [][/\ \A w \in WS : \A n \in Names :
             blob_map_[w][n] # NoBlob => blob_map_'[w][n] = blob_map_[w][n]
       /\ ret'.op # "WriteBlob" => blobVal' = blobVal
       /\ (ret'.op = "CreateBlob" /\ blob_map_[ret'.w][ret'.name] # NoBlob) =>
             ret'.blob = blob_map_[ret'.w][ret'.name]
       /\ BindingsValid(nets', blob_map_')]_vars

\* C3 witness: a repeated CreateBlob returned the blob of the name, which
\* holds a written payload and is bound by an instance of a live net.
C3_Witness ==
    /\ ret.op = "CreateBlob"
    /\ ~ret.ok
    /\ ret.blob = blob_map_[ret.w][ret.name]
    /\ blobVal[ret.blob] # 0
    /\ \E id \in 1..MaxNets :
          /\ nets[id].alive
          /\ \E k \in 1..Len(nets[id].ops) :
                \E i \in 1..Len(nets[id].ops[k].outputs) :
                    nets[id].ops[k].outputs[i] = ret.blob

\* C5: CreateNet without overwrite, on a name the net map holds, throws and
\* leaves the net map and every net object as they were; it never goes on
\* to construct a net.
C5_RefuseOverwrite ==
    [][/\ (pc = "idle" /\ pc' = "construct" /\ ~pending'.overwrite) =>
             net_map_[pending'.w][pending'.def.name] = NoNet
       /\ (ret'.op = "CreateNet" /\ ret'.aux = <<"refused">>) =>
             /\ ret'.threw
             /\ net_map_' = net_map_
             /\ nets' = nets
             /\ nextNet' = nextNet]_vars

\* C5 witness: CreateNet was refused for a name whose net is registered and
\* alive.
C5_Witness ==
    /\ ret.op = "CreateNet"
    /\ ret.aux = <<"refused">>
    /\ ret.name \in NetNames
    /\ net_map_[ret.w][ret.name] > NoNet
    /\ nets[net_map_[ret.w][ret.name]].alive

\* C6: while Workspace::CreateNet constructs the new net, and until it has
\* assigned it, the net map holds no net for the name and the old net is
\* destroyed: every live net is the one its name is registered to, or the
\* net just constructed; after a successful CreateNet, GetNet(name) is the
\* new net.
C6_EraseBeforeConstruct ==
    /\ pc = "construct" => net_map_[pending.w][pending.def.name] = NoNet
    /\ pc = "install" => net_map_[pending.w][pending.def.name] \in {NoNet, NullEntry}
    /\ \A id \in 1..MaxNets : nets[id].alive =>
          \/ net_map_[nets[id].w][nets[id].name] = id
          \/ pc = "install" /\ pending.result = id
    /\ (ret.op = "CreateNet" /\ ret.ok) =>
          /\ ret.net = nextNet - 1
          /\ nets[ret.net].alive
          /\ GetNet(net_map_, ret.w, ret.name) = ret.net

\* C6 witness: CreateNet with overwrite replaced a registered net: the new
\* net is the second one constructed and the first is destroyed.
C6_Witness ==
    /\ ret.op = "CreateNet"
    /\ ret.aux = <<"replaced">>
    /\ GetNet(net_map_, ret.w, ret.name) = ret.net
    /\ ret.net > 1
    /\ \E id \in 1..MaxNets : id < ret.net /\ ~nets[id].alive

\* C7 as stated: whenever the construction of the net fails inside
\* CreateNet, CreateNet returns null and the net map holds no entry for the
\* name.
C7_FailureReturnsNull ==
    (ret.op = "CreateNet" /\ ret.aux \in {<<"construction">>, <<"null">>}) =>
        /\ ~ret.threw
        /\ ret.net = NoNet
        /\ net_map_[ret.w][ret.name] = NoNet

\* C8 as stated: RunOperatorOnce returns false when the construction of the
\* kernel instance fails.
C8_ConstructionFailureReturnsFalse ==
    (ret.op = "RunOperatorOnce" /\ ret.aux = <<"throw">>) =>
        ~ret.threw /\ ~ret.ok

\* C9: RunNetOnce leaves the net map and the registered nets as they were,
\* throws when the net cannot be constructed, and otherwise returns false
\* exactly when an operator of the net reports failure.
C9_RunNetOnceFrame ==
    [][ret'.op = "RunNetOnce" =>
         /\ net_map_' = net_map_
         /\ nets' = nets
         /\ nextNet' = nextNet
         /\ ret'.aux[1] # "net" => ret'.threw /\ ~ret'.ok
         /\ ret'.aux[1] = "net" =>
               /\ ~ret'.threw
               /\ ret'.ok = ~\E k \in 1..Len(ret'.aux[2].op) :
                                 ret'.aux[2].op[k].fail]_vars

\* C9 witness: RunNetOnce ran a net that reported failure while a net of
\* the same name is registered.
C9_Witness ==
    /\ ret.op = "RunNetOnce"
    /\ ~ret.threw
    /\ ~ret.ok
    /\ ret.name \in NetNames
    /\ net_map_[ret.w][ret.name] > NoNet
    /\ nets[net_map_[ret.w][ret.name]].alive

\* The engines an engine string of the dispatch inputs lists, written out.
ListedEngines(e) ==
    IF e = <<"A", Comma, "B">> THEN <<EngA, EngB>>
    ELSE IF e = <<"B", Comma, "A">> THEN <<EngB, EngA>>
    ELSE IF e = DEFAULT \o <<Comma, "B">> THEN <<DEFAULT, EngB>>
    ELSE <<>>

\* The per-operator and the global preferred engines in force for def.
PreferredEngines(def) ==
    (IF /\ def.device \in DOMAIN g_per_op_engine_pref
        /\ def.type \in DOMAIN g_per_op_engine_pref[def.device]
     THEN g_per_op_engine_pref[def.device][def.type] ELSE <<>>)
    \o (IF def.device \in DOMAIN g_global_engine_pref
        THEN g_global_engine_pref[def.device] ELSE <<>>)

\* The order the claim gives: listed engines, then per-operator, then
\* global preferences; the listed engines alone when implicit preference
\* is disabled.
ClaimedEngines(def) ==
    IF FLAGS_caffe2_disable_implicit_engine_preference
    THEN ListedEngines(def.engine)
    ELSE ListedEngines(def.engine) \o PreferredEngines(def)

KeyOf(def, engine) ==
    IF engine = DEFAULT THEN <<def.type>>
    ELSE <<def.type, "_ENGINE_">> \o engine

\* The registry keys in the claimed order, the bare type last.
ClaimedKeys(def) ==
    [i \in 1..Len(ClaimedEngines(def)) |-> KeyOf(def, ClaimedEngines(def)[i])]
    \o <<<<def.type>>>>

\* The creator under key constructs an instance of def in workspace w.
Constructs(def, w, key) ==
    /\ Creator(def.device, key) = "ok"
    /\ \A i \in 1..Len(def.input) : HasBlob(blob_map_, w, def.input[i])

\* The creator under key gives no instance and lets dispatch go on.
Skipped(def, key) == Creator(def.device, key) \in {"absent", "unsupported"}

C10_Order(def, w, tried, engine, ok, keys) ==
    /\ Len(tried) \in 1..Len(keys)
    /\ tried = SubSeq(keys, 1, Len(tried))
    /\ \A i \in 1..(Len(tried) - 1) : ~Constructs(def, w, tried[i])
    /\ ok =>
          /\ Constructs(def, w, tried[Len(tried)])
          /\ engine = IF Len(tried) = Len(keys) THEN <<>>
                      ELSE ClaimedEngines(def)[Len(tried)]
    /\ \A i \in 1..Len(keys) :
          (/\ Constructs(def, w, keys[i])
           /\ \A j \in 1..(i - 1) : Skipped(def, keys[j]))
          => ok /\ Len(tried) = i

\* C10: CreateOperator hands the registry the keys of the listed engines in
\* listed order, then of the per-operator preferred engines, then of the
\* global preferred engines (the listed ones alone when implicit engine
\* preference is disabled), the bare type last; it stops at the first key
\* that constructs, returns that instance annotated with its engine, and
\* never goes past a key that would construct.
C10_EngineOrder ==
    [][ret'.op = "CreateOperator" =>
          C10_Order(ret'.aux[1], ret'.w, ret'.aux[2], ret'.aux[3], ret'.ok,
                    ClaimedKeys(ret'.aux[1]))]_vars

\* C10 witness: engines "A,B" listed, per-operator preference [C], global
\* preference [D], of the engines only B constructs: the A key, then the B
\* key were tried and the instance of B was returned.
C10_Witness ==
    /\ ret.op = "CreateOperator"
    /\ ret.ok
    /\ ret.aux[1].engine = <<"A", Comma, "B">>
    /\ ~FLAGS_caffe2_disable_implicit_engine_preference
    /\ PreferredEngines(ret.aux[1]) = <<EngC, EngD>>
    /\ \A e \in {EngA, EngC, EngD} :
          ~Constructs(ret.aux[1], ret.w, KeyOf(ret.aux[1], e))
    /\ Constructs(ret.aux[1], ret.w, KeyOf(ret.aux[1], EngB))
    /\ ret.aux[2] = <<KeyOf(ret.aux[1], EngA), KeyOf(ret.aux[1], EngB)>>
    /\ ret.aux[3] = EngB

\* The construction under key throws something other than
\* UnsupportedOperatorFeature: the device type has no registry, or a
\* creator is registered and an input blob is missing or the kernel's
\* constructor fails.
HardFails(def, w, key) ==
    \/ def.device \notin DOMAIN registry
    \/ /\ Creator(def.device, key) # "absent"
       /\ \/ \E i \in 1..Len(def.input) : ~HasBlob(blob_map_, w, def.input[i])
          \/ Creator(def.device, key) = "error"

\* The construction under key gives no instance and no error: no creator,
\* or a creator that signals unsupported-feature.
SoftFails(def, w, key) ==
    /\ ~HardFails(def, w, key)
    /\ Creator(def.device, key) \in {"absent", "unsupported"}

C11_Propagation(def, w, tried, threw, keys) ==
    /\ \A i \in 1..Len(tried) :
          /\ SoftFails(def, w, tried[i]) /\ i < Len(keys)
                => Len(tried) > i /\ tried[i + 1] = keys[i + 1]
          /\ HardFails(def, w, tried[i]) => Len(tried) = i /\ threw
    /\ (\E i \in 1..Len(keys) :
           /\ HardFails(def, w, keys[i])
           /\ \A j \in 1..(i - 1) : SoftFails(def, w, keys[j]))
       => threw

\* C11: during dispatch a candidate whose construction signals
\* unsupported-feature (or that has no creator) is passed over and the next
\* candidate is tried; any other construction failure, a device type
\* without registry included, ends CreateOperator with that error at once:
\* no later candidate and no bare-type fallback is tried.
C11_HardErrorsPropagate ==
    [][ret'.op = "CreateOperator" =>
          C11_Propagation(ret'.aux[1], ret'.w, ret'.aux[2], ret'.threw,
                          ClaimedKeys(ret'.aux[1]))]_vars

\* C11 witness: engines "A,B" listed, A signals unsupported-feature and the
\* constructor of B fails while the bare type would construct: the A key,
\* then the B key were tried and CreateOperator threw.
C11_Witness ==
    /\ ret.op = "CreateOperator"
    /\ ret.threw
    /\ ret.aux[1].engine = <<"A", Comma, "B">>
    /\ ret.aux[1].device = "CPU"
    /\ ret.aux[1].input = <<>>
    /\ Creator("CPU", KeyOf(ret.aux[1], EngA)) = "unsupported"
    /\ Creator("CPU", KeyOf(ret.aux[1], EngB)) = "error"
    /\ Creator("CPU", <<ret.aux[1].type>>) = "ok"
    /\ ret.aux[2] = <<KeyOf(ret.aux[1], EngA), KeyOf(ret.aux[1], EngB)>>

C12_Fallback(def, w, tried, ok, threw, keys) ==
    /\ ok # threw
    /\ (Len(tried) = Len(keys)) <=>
          \A i \in 1..(Len(keys) - 1) : SoftFails(def, w, keys[i])
    /\ Len(tried) = Len(keys) =>
          /\ tried[Len(tried)] = <<def.type>>
          /\ ok = Constructs(def, w, <<def.type>>)

\* C12: the bare operator type is constructed exactly when every candidate
\* engine was tried and gave no instance; CreateOperator then returns the
\* bare instance or, when there is none, ends with an error: a call ends
\* with an instance or with an error, never with a null instance.
C12_BareTypeLast ==
    [][ret'.op = "CreateOperator" =>
          C12_Fallback(ret'.aux[1], ret'.w, ret'.aux[2], ret'.ok,
                       ret'.threw, ClaimedKeys(ret'.aux[1]))]_vars

\* C12 witness: the listed engines A and B gave no instance, the bare type
\* has no creator either, and CreateOperator ended with an error after it
\* tried all three keys.
C12_Witness ==
    /\ ret.op = "CreateOperator"
    /\ ret.threw
    /\ ~ret.ok
    /\ ret.aux[1].engine = <<"A", Comma, "B">>
    /\ ret.aux[1].device = "CPU"
    /\ FLAGS_caffe2_disable_implicit_engine_preference
    /\ Creator("CPU", <<ret.aux[1].type>>) = "absent"
    /\ ret.aux[2] = <<KeyOf(ret.aux[1], EngA), KeyOf(ret.aux[1], EngB),
                      <<ret.aux[1].type>>>>

\* The values the last-failed-position record of a workspace can hold.
RecordValues == {Indeterminate} \cup (0..MaxNets)

\* The outcome of CreateOperator as its caller sees it: whether it gave an
\* instance, the keys tried, the engine, the blob maps it leaves and the
\* net position of the instance.
Outcome(c) ==
    <<c.op.status = "op", c.op.status = "throw", c.op.tried, c.op.engine,
      c.op.bm, c.op.nb, c.net_position>>

\* C14: a failed CreateOperator with a net position other than 0 sets the
\* last-failed-position record of its workspace to that position; a failed
\* one with net position 0 and every successful one leave the record as it
\* was; and the outcome of the call is the one CreateOperator gives for the
\* same operator def, blobs, registry and preference tables under every
\* other value of the record.
C14_LastFailedRecord ==
    [][ret'.op = "CreateOperator" =>
         /\ last_failed_op_net_position' =
               IF ret'.threw /\ ret'.aux[5] # 0
               THEN [last_failed_op_net_position EXCEPT ![ret'.w] = ret'.aux[5]]
               ELSE last_failed_op_net_position
         /\ \A v \in RecordValues :
               Outcome(CreateOperator(ret'.aux[1], blob_map_, nextBlob,
                          ret'.w, ret'.aux[5],
                          [last_failed_op_net_position EXCEPT ![ret'.w] = v]))
               = <<ret'.ok, ret'.threw, ret'.aux[2], ret'.aux[3],
                   blob_map_', nextBlob', ret'.aux[4]>>]_vars

\* C14 witness: a CreateOperator with net position 0 failed after an
\* earlier failure had set the record to 1, and the record still holds 1.
C14_Witness ==
    /\ ret.op = "CreateOperator"
    /\ ret.threw
    /\ ret.aux[5] = 0
    /\ last_failed_op_net_position[ret.w] = 1

\* Validity of a preference table as the claim states it: every device
\* type it names has a registry, and (per-operator table) every operator
\* type it names has a creator in the registry of its device type.
DevicesRegistered(pref) == DOMAIN pref \subseteq DOMAIN registry
TypesRegistered(pref) ==
    \A d \in DOMAIN pref \cap DOMAIN registry : \A t \in DOMAIN pref[d] :
        /\ <<t>> \in DOMAIN registry[d]
        /\ registry[d][<<t>>] # "absent"

\* C15: SetPerOpEnginePref and SetGlobalEnginePref install their argument
\* as the whole table when every device type and operator type it names is
\* registered, and otherwise fail and leave the installed table as it was;
\* neither changes the other table.
C15_PrefsValidated ==
    [][/\ ret'.op = "SetPerOpEnginePref" =>
             /\ g_global_engine_pref' = g_global_engine_pref
             /\ IF DevicesRegistered(ret'.aux[1]) /\ TypesRegistered(ret'.aux[1])
                THEN ~ret'.threw /\ g_per_op_engine_pref' = ret'.aux[1]
                ELSE ret'.threw /\ g_per_op_engine_pref' = g_per_op_engine_pref
       /\ ret'.op = "SetGlobalEnginePref" =>
             /\ g_per_op_engine_pref' = g_per_op_engine_pref
             /\ IF DevicesRegistered(ret'.aux[1])
                THEN ~ret'.threw /\ g_global_engine_pref' = ret'.aux[1]
                ELSE ret'.threw /\ g_global_engine_pref' = g_global_engine_pref]_vars

\* C15 witness: SetPerOpEnginePref failed on an operator type without
\* creator while a table installed earlier is in force, which is still
\* installed.
C15_Witness ==
    /\ ret.op = "SetPerOpEnginePref"
    /\ ret.threw
    /\ DevicesRegistered(ret.aux[1])
    /\ ~TypesRegistered(ret.aux[1])
    /\ g_per_op_engine_pref # <<>>
    /\ g_per_op_engine_pref # ret.aux[1]

\* C13: when a schema is registered for the type of the operator def and
\* the def violates it, CreateOperator ends with an error before any
\* registry key is tried and any blob is created; when no schema is
\* registered for the type, the construction goes on to the registry.
C13_SchemaFirst ==
    [][ret'.op = "CreateOperator" =>
         /\ (/\ ret'.aux[1].type \in DOMAIN OpSchemaRegistry
             /\ ~SchemaVerify(OpSchemaRegistry[ret'.aux[1].type], ret'.aux[1]))
            => /\ ret'.threw
               /\ ret'.aux[2] = <<>>
               /\ blob_map_' = blob_map_
               /\ nextBlob' = nextBlob
         /\ ret'.aux[1].type \notin DOMAIN OpSchemaRegistry
            => /\ ret'.aux[2] = <<<<ret'.aux[1].type>>>>
               /\ ret'.ok = Constructs(ret'.aux[1], ret'.w,
                                       <<ret'.aux[1].type>>)]_vars

\* C13 witness: CreateOperator failed for a def that aliases input 1 and
\* output 0, which the schema of its type does not allow, while both its
\* input blobs exist and its type has a creator: no key was tried.
C13_Witness ==
    /\ ret.op = "CreateOperator"
    /\ ret.threw
    /\ ret.aux[1] = OpInplaceBad
    /\ ret.aux[2] = <<>>
    /\ \A n \in Names : blob_map_[ret.w][n] # NoBlob
    /\ Creator("CPU", <<"NetTestDummy">>) = "ok"

\* The names a sequence of names holds.
Range(seq) == {seq[i] : i \in 1..Len(seq)}

\* The blob names the operators of a net def list as outputs.
Produced(def) == UNION {Range(def.op[k].output) : k \in 1..Len(def.op)}

\* The declarations of a net def hold in workspace w: every declared
\* external input is a blob of the workspace, every declared external
\* output is an output of one of the operators.
DeclarationsMet(def, w) ==
    /\ \A n \in Range(def.external_input) : Denotes(w, n) # NoBlob
    /\ Range(def.external_output) \subseteq Produced(def)

\* C16: the construction of a net fails when a declared external input is
\* no blob of the workspace and when a declared external output is the
\* output of none of its operators; the net of an operator that creates x
\* and one that reads x constructs without declarations, and with
\* declarations as soon as they are met.
C16_ExternalIO ==
    [][(ret'.op = "RunNetOnce" /\ ret'.aux[2].type \in NetTypes) =>
         /\ ~DeclarationsMet(ret'.aux[2], ret'.w) =>
               ret'.aux[1] = "throw" /\ ret'.threw
         /\ (DeclarationsMet(ret'.aux[2], ret'.w)
             /\ ret'.aux[2].op = <<OpX, OpXY>>) =>
               ret'.aux[1] = "net" /\ ret'.ok]_vars

\* C16 witness: the construction of the net that declares x as external
\* input and y as external output failed in a workspace without blob x.
C16_Witness ==
    /\ ret.op = "RunNetOnce"
    /\ ret.threw
    /\ ret.aux[1] = "throw"
    /\ ret.aux[2].op = <<OpX, OpXY>>
    /\ ret.aux[2].external_input = <<"x">>
    /\ ret.aux[2].external_output = <<"y">>
    /\ blob_map_[ret.w]["x"] = NoBlob

\* The number of instances of ops ahead of the first one configured to
\* fail.
AheadOfFailure(ops) ==
    Cardinality({k \in 1..Len(ops) : \A j \in 1..k : ~ops[j].fail})

\* C17: every Run of a net of n instances none of which fails returns true
\* after n executions; every Run of a net with an instance configured to
\* fail returns false after fewer than n executions, those of the
\* instances ahead of the failing one; a Run changes no blob map and no
\* net.
C17_RunExecutions ==
    [][(ret'.op = "RunNet" /\ ret'.net # NoNet) =>
         /\ ret'.net = net_map_[ret'.w][ret'.name]
         /\ ret'.aux = <<AheadOfFailure(nets[ret'.net].ops)>>
         /\ IF \E k \in 1..Len(nets[ret'.net].ops) : nets[ret'.net].ops[k].fail
            THEN ~ret'.ok /\ ret'.aux[1] < Len(nets[ret'.net].ops)
            ELSE ret'.ok /\ ret'.aux[1] = Len(nets[ret'.net].ops)
         /\ UNCHANGED <<blob_map_, blobVal, nextBlob, net_map_, nets>>]_vars

\* C17 witness: a Run of a net of two instances, the second configured to
\* fail, returned false after one execution.
C17_Witness ==
    /\ ret.op = "RunNet"
    /\ ret.net # NoNet
    /\ ~ret.ok
    /\ Len(nets[ret.net].ops) = 2
    /\ nets[ret.net].ops[2].fail
    /\ ret.aux = <<1>>

\* The rows [t+o, t+o+w) of a link at timestep t, as a view.
LinkRows(t, o, w) == [start |-> t + o, len |-> w]

\* C18: once the link nodes of a step workspace have run at the timestep t
\* of its timestep blob, the internal blob of every Link (offset o, window
\* w) is the view of exactly rows [t+o, t+o+w) of the state tensor; the
\* rows the step reads through h_prev are the rows [t, t+w) of the tensor
\* as they are then, and what it writes through h is row t+o of the
\* tensor, no other row changing.
C18_LinkViews ==
    [][/\ \A c \in StepWsIds : stepWs'[c].timestep >= 0 =>
            /\ stepWs'[c].internal["h_prev"] =
                  LinkRows(stepWs'[c].timestep, 0, rnnOp.initialStateLength)
            /\ stepWs'[c].internal["h"] =
                  LinkRows(stepWs'[c].timestep, rnnOp.initialStateLength, 1)
       /\ (pc = "timestep" /\ timestep < seqLen /\ ~rnnOp.rnnExecutor_) =>
            /\ pc' = "timestep"
            /\ stepWs'[stepWorkspaces'[slot' + 1]].timestep = timestep
            /\ state' =
                 [state EXCEPT ![timestep + rnnOp.initialStateLength + 1] =
                     <<timestep>> \o
                     SubSeq(state, timestep + 1,
                            timestep + rnnOp.initialStateLength)]]_vars

\* C18 witness: the links of window 2 and of window 1 were applied at
\* timestep 2, and the step read rows [2, 4) and wrote row 4.
C18_Witness ==
    /\ rnnOp.initialStateLength = 2
    /\ ~rnnOp.rnnExecutor_
    /\ \E c \in StepWsIds :
          /\ stepWs[c].timestep = 2
          /\ stepWs[c].internal["h_prev"] = LinkRows(2, 0, 2)
          /\ stepWs[c].internal["h"] = LinkRows(2, 2, 1)
    /\ Len(state) >= 5
    /\ state[5] = <<2, state[3], state[4]>>

\* The state at time index k of a run primed with the rows of input: for
\* k >= 0 what step k computes from the states at the time indices before
\* it, for k < 0 the rows of the initial state.
RECURSIVE StateAt(_, _)
StateAt(input, k) ==
    IF k < 0 THEN input[Len(input) + k + 1]
    ELSE <<k>> \o [j \in 1..Len(input) |->
                      StateAt(input, k - Len(input) + j - 1)]

\* C19: a run over T >= 1 timesteps of an operator whose OffsetAlias has
\* offset -1 returns true, and its output is the one row holding the state
\* at time index T-1, the state the last step produced; this for the pool
\* of 2, the pool of 4 and one workspace per timestep alike.
C19_LastState ==
    [][(pc = "timestep" /\ pc' = "idle" /\ seqLen >= 1
          /\ rnnOp.aliases_[1].offset = -1) =>
         /\ ret'.op = "RunOnDevice"
         /\ ret'.ok
         /\ ~ret'.threw
         /\ ret'.aux = <<seqLen, primed, <<StateAt(primed, seqLen - 1)>>>>]_vars

\* C19 witness: forward only with the pool of 2, three timesteps, two
\* rows of initial state, offset -1: the output is what step 2 computed
\* from the outputs of steps 0 and 1.
C19_Witness ==
    /\ ~rnnOp.has_backward_pass
    /\ ~rnnOp.rnnExecutor_
    /\ rnnOp.aliases_[1].offset = -1
    /\ pc = "idle"
    /\ ret.op = "RunOnDevice"
    /\ ret.ok
    /\ ret.aux[1] = 3
    /\ ret.aux[2] = <<<<0>>, <<1>>>>
    /\ ret.aux[3] = <<<<2, <<0, <<0>>, <<1>>>>,
                          <<1, <<1>>, <<0, <<0>>, <<1>>>>>>>>>>

\* The pool size P of the claim.
PoolSize == IF rnnOp.rnnExecutor_ THEN 4 ELSE 2

\* C20: without a backward pass, over any number of runs of any lengths,
\* every timestep t runs in the workspace of slot t mod P of the workspace
\* vector (P = 2, or 4 with the executor), the slot index is inside the
\* vector, and the operator has created at most P step workspaces.
C20_ForwardOnlyPool ==
    [][~rnnOp.has_backward_pass =>
         /\ nextStepWs' - 1 <= PoolSize
         /\ Cardinality({stepWorkspaces'[i] : i \in 1..Len(stepWorkspaces')}
                        \ {NoWs}) <= PoolSize
         /\ (pc = "timestep" /\ timestep < seqLen) =>
              /\ pc' = "timestep"
              /\ slot' = timestep % PoolSize
              /\ slot' < Len(stepWorkspaces')
              /\ stepWorkspaces'[slot' + 1] # NoWs
              /\ IF rnnOp.rnnExecutor_
                 THEN timestepWs'[timestep + 1] = stepWorkspaces'[slot' + 1]
                 ELSE stepWs'[stepWorkspaces'[slot' + 1]].timestep
                         = timestep]_vars

\* C20 witness: forward only with the pool of 2, in a run after a
\* completed one, timestep 4 has run in slot 0 and two step workspaces
\* exist.
C20_Witness ==
    /\ ~rnnOp.has_backward_pass
    /\ ~rnnOp.rnnExecutor_
    /\ ret.op = "RunOnDevice"
    /\ pc = "timestep"
    /\ timestep = 5
    /\ slot = 0
    /\ nextStepWs = 3
    /\ Len(stepWorkspaces) = 2

\* C30: a call of SetEnginePref or of SetOpEnginePref that fails
\* validation changes neither the per-op table nor the global table.
C30_AllOrNothing ==
    [][(ret'.op \in {"SetEnginePref", "SetOpEnginePref"} /\ ret'.threw) =>
         UNCHANGED <<g_per_op_engine_pref, g_global_engine_pref>>]_vars

\* The nodes of a graph without their control inputs.
Bare(ops) == [k \in 1..Len(ops) |-> [ops[k] EXCEPT !.control_input = <<>>]]

FirstReference(ops, name) ==
    IF \E k \in 1..Len(ops) : HasInput(ops[k], name) \/ HasOutput(ops[k], name)
    THEN CHOOSE k \in 1..Len(ops) :
            /\ HasInput(ops[k], name) \/ HasOutput(ops[k], name)
            /\ \A j \in 1..(k - 1) :
                  ~(HasInput(ops[j], name) \/ HasOutput(ops[j], name))
    ELSE 0

\* The nodes of the constructed graph, link nodes left out, that carry
\* the blob as a control input.
Controlled(ops, nLinks, name) ==
    {k \in 1..(Len(ops) - nLinks) :
        \E c \in 1..Len(ops[nLinks + k].control_input) :
            ops[nLinks + k].control_input[c] = name}

\* C26: for every Link of a constructed operator, a node of the step
\* graph carries the link's internal blob as control input only when the
\* first node of the graph given that references the blob has it as an
\* output, and then that node is the only one; when the first reference
\* is an input, no node carries it.
C26_ControlInput ==
    [][(ret'.op = "RecurrentNetworkOp" /\ ret'.ok) =>
         \A i \in 1..Len(ret'.aux[2]) :
            Controlled(stepNetDef_'.op, Len(ret'.aux[2]),
                       ret'.aux[2][i].internal)
            = IF /\ FirstReference(ret'.aux[1].op, ret'.aux[2][i].internal) # 0
                 /\ ~HasInput(ret'.aux[1].op[
                        FirstReference(ret'.aux[1].op, ret'.aux[2][i].internal)],
                        ret'.aux[2][i].internal)
              THEN {FirstReference(ret'.aux[1].op, ret'.aux[2][i].internal)}
              ELSE {}]_vars

\* The first row s of the claim for a source of D rows and offset o.
AliasStart(D, o) == IF o >= 0 THEN o ELSE D + o

\* C27: at the end of a run, on a state tensor of D rows, applyOffsetAlias
\* either fails or repoints the output onto rows [s, D), s = o for o >= 0
\* and s = D + o for o < 0; it fails whenever D - s <= 0, and whenever it
\* does not fail 0 <= s < D holds and the view stays inside the tensor.
C27_AliasInsideSource ==
    [][(pc = "timestep" /\ timestep = seqLen) =>
         /\ pc' = "idle"
         /\ ret'.op = "RunOnDevice"
         /\ (Len(state) - AliasStart(Len(state), rnnOp.aliases_[1].offset) <= 0)
               => ret'.threw
         /\ ~ret'.threw =>
               /\ dst' = [start |-> AliasStart(Len(state),
                                               rnnOp.aliases_[1].offset),
                          len |-> Len(state)
                                  - AliasStart(Len(state),
                                               rnnOp.aliases_[1].offset)]
               /\ 0 <= dst'.start
               /\ dst'.start < Len(state)]_vars

\* C28: in every timestep t of a run, for every link of the operator
\* (offset >= 0, window >= 0), the rows [t+offset, t+offset+window) the
\* link node makes the internal blob lie inside the state tensor.
C28_LinkInsideExternal ==
    [][(pc = "timestep" /\ timestep < seqLen
          /\ \A i \in 1..Len(rnnOp.links_) :
                rnnOp.links_[i].offset >= 0 /\ rnnOp.links_[i].window >= 0) =>
         /\ pc' # "out of bounds"
         /\ \A i \in 1..Len(rnnOp.links_) :
               timestep + rnnOp.links_[i].offset + rnnOp.links_[i].window
                  <= Len(state)]_vars

\* C21: with a backward pass, over any sequence of runs, every timestep t
\* runs in the workspace of slot t; the number of slots never decreases
\* and is at least the T of every run started so far; a slot that holds a
\* workspace holds the same workspace ever after, and no workspace is
\* constructed but into an empty slot.
C21_BackwardSlots ==
    [][rnnOp.has_backward_pass =>
         /\ Len(stepWorkspaces') >= Len(stepWorkspaces)
         /\ Len(stepWorkspaces') >= seqLen'
         /\ \A i \in 1..Len(stepWorkspaces) :
               stepWorkspaces[i] # NoWs => stepWorkspaces'[i] = stepWorkspaces[i]
         /\ nextStepWs' - 1 =
               Cardinality({i \in 1..Len(stepWorkspaces') :
                               stepWorkspaces'[i] # NoWs})
         /\ (pc = "timestep" /\ timestep < seqLen) =>
              /\ pc' = "timestep"
              /\ slot' = timestep
              /\ stepWorkspaces'[timestep + 1] # NoWs
              /\ IF rnnOp.rnnExecutor_
                 THEN timestepWs'[timestep + 1] = stepWorkspaces'[timestep + 1]
                 ELSE stepWs'[stepWorkspaces'[timestep + 1]].timestep
                         = timestep]_vars

\* C21 witness: with a backward pass, after a run of three timesteps, a
\* run of two has gone through its timesteps with three slots and three
\* workspaces in all.
C21_Witness ==
    /\ rnnOp.has_backward_pass
    /\ ret.op = "RunOnDevice"
    /\ ret.aux[1] = 3
    /\ pc = "timestep"
    /\ seqLen = 2
    /\ timestep = 2
    /\ Len(stepWorkspaces) = 3
    /\ nextStepWs = 4

\* The step workspace of the timestep a step of the loop has gone through.
StepWsOf(sw, s) == sw[s + 1]

\* C22: in the plain path a step workspace gets its step net constructed
\* at most once over all runs: a timestep in a workspace that holds the
\* step net keeps that net, constructs nothing and goes on; a timestep in
\* a workspace without it either constructs the net and goes on, or
\* constructs none and the run ends with an exception, the state tensor
\* untouched by that timestep.
C22_StepNetCached ==
    [][(pc = "timestep" /\ timestep < seqLen /\ ~rnnOp.rnnExecutor_
        /\ slot' < Len(stepWorkspaces')) =>
         LET before == stepWs[StepWsOf(stepWorkspaces', slot')]
             after == stepWs'[StepWsOf(stepWorkspaces', slot')]
         IN  /\ after.constructions <= 1
             /\ before.net > NoNet =>
                   /\ after.net = before.net
                   /\ after.constructions = before.constructions
                   /\ pc' # "idle"
                   /\ timestep' = timestep + 1
             /\ before.net <= NoNet =>
                   IF after.constructions = before.constructions + 1
                   THEN after.net > NoNet /\ pc' # "idle"
                        /\ timestep' = timestep + 1
                   ELSE /\ after.constructions = before.constructions
                        /\ after.net <= NoNet
                        /\ pc' = "idle"
                        /\ ret'.op = "RunOnDevice" /\ ret'.threw
                        /\ state' = state]_vars

\* C22 witness: after a finished run of at least one timestep, a later
\* run has passed timestep 0 in the first step workspace, whose step net
\* was constructed once.
C22_Witness ==
    /\ ret.op = "RunOnDevice"
    /\ ret.ok
    /\ ret.aux[1] >= 1
    /\ ~rnnOp.rnnExecutor_
    /\ pc = "timestep"
    /\ timestep >= 1
    /\ stepWs[stepWorkspaces[1]].constructions = 1
    /\ stepWs[stepWorkspaces[1]].net > NoNet

\* The names of the recurrent states and the external names of the links.
StateNames == {"state"} \cup {links_(rnnOp)[i].external : i \in 1..Len(links_(rnnOp))}

\* C23: the state blob is a blob of the caller's workspace and of no step
\* workspace: in every step workspace, whatever ran in it, the state name
\* and the external name of every link resolve to the blob of the caller's
\* workspace, and the step workspace has no blob of its own under it.
C23_StateInSharedWs ==
    \A c \in StepWsIds : \A n \in StateNames :
        /\ n \notin stepWs[c].blob_map_
        /\ StepGetBlob(stepWs[c], n) = "sharedWs_"

\* C23 witness: two step workspaces hold the step net, whose link nodes
\* were constructed with the state blob as an output, and have the
\* internal blobs and the timestep blob as their own.
C23_Witness ==
    /\ Len(stepWorkspaces) >= 2
    /\ stepWorkspaces[1] # NoWs
    /\ stepWorkspaces[2] # NoWs
    /\ \A i \in 1..2 :
          /\ stepWs[stepWorkspaces[i]].net > NoNet
          /\ stepWs[stepWorkspaces[i]].blob_map_ = {"timestep", "h_prev", "h"}
    /\ \E k \in 1..Len(stepNetDef_.op) :
          /\ stepNetDef_.op[k].type = "rnn_internal_apply_link"
          /\ HasOutput(stepNetDef_.op[k], "state")

\* The workspace a step is an operation of: that of the call that
\* returned, or of the CreateNet under way.
CalledOn ==
    IF pc # "idle" THEN pending.w
    ELSE IF pc' # "idle" THEN pending'.w
    ELSE ret'.w

\* C29: no operation called on a workspace that shares a parent changes
\* the parent's blob map or net map; a CreateBlob on it of a name the
\* parent resolves changes no blob map at all.
C29_ParentMapsUntouched ==
    [][(CalledOn # NoWs /\ shared_[CalledOn] # NoWs) =>
         /\ blob_map_'[shared_[CalledOn]] = blob_map_[shared_[CalledOn]]
         /\ net_map_'[shared_[CalledOn]] = net_map_[shared_[CalledOn]]
         /\ (ret'.op = "CreateBlob"
              /\ HasBlob(blob_map_, shared_[CalledOn], ret'.name)) =>
                blob_map_' = blob_map_]_vars

\* C29 witness: the parent holds the blobs x and y and a net n; a net of
\* the same name was constructed in the child, whose operators have x and
\* y as outputs, and the child's blob map is empty.
C29_Witness ==
    /\ nWs = 2
    /\ shared_[2] = 1
    /\ blob_map_[1]["x"] # NoBlob
    /\ blob_map_[1]["y"] # NoBlob
    /\ net_map_[1]["n"] > NoNet
    /\ net_map_[2]["n"] > NoNet
    /\ net_map_[2]["n"] # net_map_[1]["n"]
    /\ \A n \in Names : blob_map_[2][n] = NoBlob
    /\ ret.op = "CreateNet"
    /\ ret.w = 2
    /\ ret.ok

\* The rows of the state tensor behind the initial rows, as the steps
\* 0..k-1 of a run leave them with the links of StepLinks(1): row t of
\* them written by the step net that read t from its timestep blob, the
\* rows from k on not written.
RowsInOrder(st, L, k) ==
    \A i \in (L + 1)..Len(st) :
        IF i <= L + k THEN st[i] # Stale /\ st[i][1] = i - L - 1
        ELSE st[i] = Stale

\* C24: in the plain path the timesteps are gone through one at a time
\* from 0 up: at timestep t the steps before t have run, each having read
\* its own t from the timestep blob, and no later one has; the step of t
\* leaves t in the timestep blob of its workspace and the link views at
\* t; the run returns, with the aliases applied, only from timestep T
\* with all T steps run, and a run that stops earlier applies no alias;
\* the constructor leaves the plain step net a type that is neither
\* async_dag nor rnn, rnn having become async_simple.
C24_TimestepsInOrder ==
    [][/\ (pc = "timestep" /\ ~rnnOp.rnnExecutor_) =>
            /\ RowsInOrder(state, rnnOp.initialStateLength, timestep)
            /\ stepNetDef_.type \notin {"async_dag", "rnn"}
            /\ IF timestep < seqLen
               THEN /\ slot' < Len(stepWorkspaces')
                    /\ stepWs'[StepWsOf(stepWorkspaces', slot')].timestep
                          = timestep
                    /\ IF pc' = "timestep"
                       THEN /\ timestep' = timestep + 1
                            /\ RowsInOrder(state', rnnOp.initialStateLength,
                                           timestep + 1)
                            /\ dst' = dst
                       ELSE /\ pc' = "idle" /\ ret'.threw
                            /\ state' = state /\ dst' = dst
               ELSE /\ pc' = "idle"
                    /\ ret'.op = "RunOnDevice"
                    /\ ret'.ok => dst' = applyOffsetAlias(
                                           Len(state), rnnOp.aliases_[1]).view
       /\ (ret'.op = "RecurrentNetworkOp" /\ ret'.ok
           /\ ~rnnOp'.rnnExecutor_) =>
            /\ stepNetDef_'.type # "async_dag"
            /\ stepNetDef_'.type =
                  IF ret'.aux[1].type = "rnn" THEN "async_simple"
                  ELSE ret'.aux[1].type]_vars

\* C24 witness: a plain run of at least two timesteps of a step net given
\* as type rnn has returned, the rows of its steps in order and the alias
\* applied.
C24_Witness ==
    /\ ret.op = "RunOnDevice"
    /\ ret.ok
    /\ pc = "idle"
    /\ ~rnnOp.rnnExecutor_
    /\ seqLen >= 2
    /\ timestep = seqLen
    /\ stepNetDef_.type = "async_simple"
    /\ RowsInOrder(state, rnnOp.initialStateLength, seqLen)
    /\ dst = applyOffsetAlias(Len(state), rnnOp.aliases_[1]).view

====
